---- MODULE Spec2Model ----
(***************************************************************************)
(* A model of the Yomitran note-conversion add-on: the re-entrancy guarded *)
(* run_conversion (src/modules/yomitran.py) and the conversion driver      *)
(* convert_notes with its category selector and value helpers              *)
(* (src/modules/_yomitran_conversion.py).                                  *)
(*                                                                         *)
(* Python strings are TLA+ strings; TLC evaluates Len, SubSeq and \o on    *)
(* them, so the text helpers below work character by character.            *)
(***************************************************************************)
EXTENDS Integers, Sequences, FiniteSets, TLC

(***************************************************************************)
(* Text helpers: the str methods and regular expressions the code uses.    *)
(***************************************************************************)

CharAt(s, i) == SubSeq(s, i, i)

UpperChars == "ABCDEFGHIJKLMNOPQRSTUVWXYZ"

LowerChars == "abcdefghijklmnopqrstuvwxyz"

\* str.lower() on one character (ASCII letters).
LowerChar(c) ==
    IF \E i \in 1..Len(UpperChars) : CharAt(UpperChars, i) = c
    THEN CharAt(LowerChars, CHOOSE i \in 1..Len(UpperChars) : CharAt(UpperChars, i) = c)
    ELSE c

RECURSIVE Lower(_)
\* str.lower()
Lower(s) == IF s = "" THEN "" ELSE LowerChar(Head(s)) \o Lower(Tail(s))

\* The characters str.strip() and the regex class \s remove.
IsSpace(c) == c \in {" ", "\t", "\n", "\r"}

RECURSIVE LStrip(_)
LStrip(s) == IF s # "" /\ IsSpace(Head(s)) THEN LStrip(Tail(s)) ELSE s

RECURSIVE RStrip(_)
RStrip(s) ==
    IF s # "" /\ IsSpace(CharAt(s, Len(s))) THEN RStrip(SubSeq(s, 1, Len(s) - 1)) ELSE s

\* str.strip()
Strip(s) == RStrip(LStrip(s))

\* needle in hay
Contains(hay, needle) ==
    \E i \in 1..(Len(hay) - Len(needle) + 1) : SubSeq(hay, i, i + Len(needle) - 1) = needle

\* str.startswith
StartsWith(s, p) == Len(p) <= Len(s) /\ SubSeq(s, 1, Len(p)) = p

RECURSIVE SplitAcc(_, _, _)
\* re.split(r"[<seps>]+", s): the pieces between runs of separator characters
\* (a leading or trailing run leaves an empty piece, as re.split does).
SplitAcc(s, seps, cur) ==
    IF s = "" THEN <<cur>>
    ELSE IF Head(s) \in seps
         THEN IF Len(s) > 1 /\ CharAt(s, 2) \in seps
              THEN SplitAcc(Tail(s), seps, cur)
              ELSE <<cur>> \o SplitAcc(Tail(s), seps, "")
         ELSE SplitAcc(Tail(s), seps, cur \o Head(s))

Split(s, seps) == SplitAcc(s, seps, "")

InSeq(x, xs) == \E i \in 1..Len(xs) : xs[i] = x

\* dict[k] = v
Put(d, k, v) == [x \in (DOMAIN d) \cup {k} |-> IF x = k THEN v ELSE d[x]]

(***************************************************************************)
(* Source values: raw fields and the normalised part of speech.            *)
(***************************************************************************)

\* A note is [mid, flds, tags, origin, cat]: flds maps the field names of its
\* note type to text, tags is the tag list; origin and cat are history (the
\* source note and the category index a target note was made from, else 0).
_get_field(note, name) == IF name \in DOMAIN note.flds THEN note.flds[name] ELSE ""

_get_value(source_values, source_note, name) ==
    IF name \in DOMAIN source_values
    THEN source_values[name]
    ELSE _get_field(source_note, name)

PosSeparators == {",", "\n", ";", "/", "|"}

RECURSIVE PosTokensOf(_)
\* [t.strip().lower() for t in parts if t.strip()]
PosTokensOf(parts) ==
    IF parts = <<>> THEN <<>>
    ELSE (IF Strip(Head(parts)) # "" THEN <<Lower(Strip(Head(parts)))>> ELSE <<>>)
         \o PosTokensOf(Tail(parts))

SlugChars == "abcdefghijklmnopqrstuvwxyz0123456789_-"

\* re.fullmatch(r"[a-z0-9][a-z0-9_-]*", tok)
IsSlug(tok) ==
    /\ tok # ""
    /\ Head(tok) \notin {"_", "-"}
    /\ \A i \in 1..Len(tok) : Contains(SlugChars, CharAt(tok, i))

_normalize_part_of_speech(value) ==
    LET raw == Strip(value)
        tokens == PosTokensOf(Split(raw, PosSeparators))
        Some(P(_)) == \E i \in 1..Len(tokens) : P(tokens[i])
        vs(t) == t \in {"vs", "vs-i", "vs-s", "vs-c"} \/ Contains(t, "suru")
        vk(t) == t = "vk" \/ Contains(t, "kuru")
        vz(t) == t = "vz" \/ Contains(t, "zuru")
        v1(t) == t \in {"v1", "v1-s"} \/ Contains(t, "ichidan")
        v5(t) == StartsWith(t, "v5") \/ Contains(t, "godan")
        adj_i(t) == t \in {"adj-i", "adj-ix"} \/ Contains(t, "i-adjective")
        adj_na(t) == t = "adj-na" \/ Contains(t, "na-adjective")
        adj_no(t) == t \in {"adj-no", "no-adj"}
        adj_pn(t) == t = "adj-pn" \/ Contains(t, "prenominal")
        adj_t(t) == t = "adj-t"
        adj_f(t) == t = "adj-f"
        n(t) == t \in {"n", "n-adv", "n-t", "n-pref", "n-suf", "n-pr", "noun"}
    IN  IF raw = "" THEN ""
        ELSE IF Some(vs) THEN "suru"
        ELSE IF Some(vk) THEN "kuru"
        ELSE IF Some(vz) THEN "zuru"
        ELSE IF Some(v1) THEN "ichidan"
        ELSE IF Some(v5) THEN "godan"
        ELSE IF Some(adj_i) THEN "i"
        ELSE IF Some(adj_na) THEN "na"
        ELSE IF Some(adj_no) THEN "no"
        ELSE IF Some(adj_pn) THEN "prenominal"
        ELSE IF Some(adj_t) THEN "taru"
        ELSE IF Some(adj_f) THEN "noun-adj"
        ELSE IF Some(n) THEN "noun"
        ELSE IF Lower(raw) \in {"unknown", "none", "n/a", "-"} THEN "unknown"
        ELSE IF Len(tokens) = 1 /\ IsSlug(tokens[1]) THEN tokens[1]
        ELSE ""

\* s[i], "" past the end
At(s, i) == IF i \in 1..Len(s) THEN SubSeq(s, i, i) ELSE ""

RECURSIVE SkipSpaces(_, _)
\* The position after a run \s* that starts at i.
SkipSpaces(s, i) == IF IsSpace(At(s, i)) THEN SkipSpaces(s, i + 1) ELSE i

RECURSIVE IndexFrom(_, _, _)
\* The first position >= i of character c in s, 0 when there is none.
IndexFrom(s, c, i) ==
    IF i > Len(s) THEN 0 ELSE IF At(s, i) = c THEN i ELSE IndexFrom(s, c, i + 1)

\* The length of the match at the head of s of one of the (?is) patterns of
\* _strip_html_text, 0 when it does not match there: "br" is <\s*br\s*/?\s*>,
\* "close" is </\s*(li|p|div|tr|ul|ol)\s*>, "any" is <[^>]+>.
TagLen(s, pattern) ==
    IF At(s, 1) # "<" THEN 0
    ELSE IF pattern = "br"
         THEN LET a == SkipSpaces(s, 2)
                  b == SkipSpaces(s, a + 2)
                  c == IF At(s, b) = "/" THEN SkipSpaces(s, b + 1) ELSE b
              IN  IF Lower(At(s, a) \o At(s, a + 1)) = "br" /\ At(s, c) = ">" THEN c ELSE 0
    ELSE IF pattern = "close"
         THEN LET a == SkipSpaces(s, 3)
                  ends == {SkipSpaces(s, a + Len(n)) : n \in
                             {n \in {"li", "p", "div", "tr", "ul", "ol"} :
                                 /\ a + Len(n) - 1 <= Len(s)
                                 /\ Lower(SubSeq(s, a, a + Len(n) - 1)) = n
                                 /\ At(s, SkipSpaces(s, a + Len(n))) = ">"}}
              IN  IF At(s, 2) = "/" /\ ends # {} THEN CHOOSE e \in ends : TRUE ELSE 0
    ELSE IF At(s, 2) \in {"", ">"} THEN 0 ELSE IndexFrom(s, ">", 3)

RECURSIVE SubTags(_, _, _)
\* re.sub(pattern, repl, s)
SubTags(s, pattern, repl) ==
    IF s = "" THEN ""
    ELSE IF TagLen(s, pattern) > 0
         THEN repl \o SubTags(SubSeq(s, TagLen(s, pattern) + 1, Len(s)), pattern, repl)
         ELSE Head(s) \o SubTags(Tail(s), pattern, repl)

RECURSIVE CollapseRuns(_, _)
\* re.sub(r"[<chars>]+", " ", s)
CollapseRuns(s, chars) ==
    IF s = "" THEN ""
    ELSE IF Head(s) \in chars
         THEN IF At(s, 2) \in chars
              THEN CollapseRuns(Tail(s), chars)
              ELSE " " \o CollapseRuns(Tail(s), chars)
         ELSE Head(s) \o CollapseRuns(Tail(s), chars)

RECURSIVE JoinLines(_, _)
\* " / ".join(lines) of the lines that are not empty once their runs of
\* chars are collapsed and they are stripped.
JoinLines(lines, chars) ==
    IF lines = <<>> THEN ""
    ELSE LET ln == Strip(CollapseRuns(Head(lines), chars))
             rest == JoinLines(Tail(lines), chars)
         IN  IF ln = "" THEN rest
             ELSE IF rest = "" THEN ln
             ELSE ln \o " / " \o rest

\* str.splitlines(), up to empty lines (which the callers drop)
SplitLines(s) == Split(s, {"\n", "\r"})

\* html.unescape is left out: the texts of the model hold no character
\* reference ("&...;").  t1, t2 and t3 are the text after each re.sub.
_strip_html_text(value) ==
    IF value = "" THEN ""
    ELSE CHOOSE txt \in {Strip(JoinLines(SplitLines(t3), {" ", "\t"})) :
                           t3 \in {SubTags(t2, "any", "") :
                                      t2 \in {SubTags(t1, "close", "\n") :
                                                 t1 \in {SubTags(value, "br", "\n")}}}} : TRUE

_normalize_selection_text(value) ==
    IF value = "" THEN ""
    ELSE CHOOSE txt \in {Strip(JoinLines(SplitLines(t1), {" ", "\t", "\n", "\r"})) :
                           t1 \in {SubTags(value, "br", "\n")}} : TRUE

\* The names of cfg["source_fields"] (a list of {name, label, enabled}).
SourceFieldNames(cfg) == {cfg.source_fields[i] : i \in 1..Len(cfg.source_fields)}

\* values.get(name) or _get_field(source_note, name)
ValueOrField(values, source_note, name) ==
    IF name \in DOMAIN values /\ values[name] # "" THEN values[name]
    ELSE _get_field(source_note, name)

\* values.get(name), "" for None
ValueGet(values, name) == IF name \in DOMAIN values THEN values[name] ELSE ""

\* The source fields copied and the part of speech normalised (lines 286-297).
PosValues(source_note, cfg) ==
    LET values == [name \in SourceFieldNames(cfg) |-> _get_field(source_note, name)]
        fromValues == IF "PartOfSpeech" \in DOMAIN values THEN values["PartOfSpeech"] ELSE ""
        raw_pos == IF fromValues # "" THEN fromValues
                   ELSE IF _get_field(source_note, "PartOfSpeech") # ""
                        THEN _get_field(source_note, "PartOfSpeech")
                        ELSE _get_field(source_note, "POS")
        pos == _normalize_part_of_speech(raw_pos)
    IN  IF pos # "" THEN Put(values, "PartOfSpeech", pos) ELSE values

\* The selection text normalised (lines 299-301).
SelectionValues(values, source_note) ==
    LET raw_selection == ValueOrField(values, source_note, "SelectionText")
    IN  IF raw_selection # ""
        THEN Put(values, "SelectionText", _normalize_selection_text(raw_selection))
        ELSE values

\* The first glossary stripped of its markup (lines 303-309).
GlossaryValues(values, source_note) ==
    LET raw_first == ValueOrField(values, source_note, "GlossaryFirst")
        raw_jmdict == ValueOrField(values, source_note, "GlossaryJMDictGerHTML")
    IN  IF raw_first # "" THEN Put(values, "GlossaryFirst", _strip_html_text(raw_first))
        ELSE IF ValueGet(values, "SelectionText") = "" /\ raw_jmdict # ""
             THEN Put(values, "GlossaryFirst", _strip_html_text(raw_jmdict))
        ELSE values

_build_source_values(source_note, cfg) ==
    GlossaryValues(SelectionValues(PosValues(source_note, cfg), source_note), source_note)

(***************************************************************************)
(* Category selector.                                                      *)
(***************************************************************************)

\* A filter is [source_field, values, mode]; values is [kind, items, text]:
\* a JSON list (kind "list"), a text typed in the dialog (kind "text") or
\* absent (kind "none").  EmptyFilter is the empty dict.
NoValues == [kind |-> "none", items |-> <<>>, text |-> ""]

ListValues(items) == [kind |-> "list", items |-> items, text |-> ""]

TextValues(text) == [kind |-> "text", items |-> <<>>, text |-> text]

EmptyFilter == [source_field |-> "", values |-> NoValues, mode |-> ""]

RECURSIVE StripLowerNonEmpty(_)
\* [x.strip().lower() for x in xs if x.strip()]
StripLowerNonEmpty(xs) ==
    IF xs = <<>> THEN <<>>
    ELSE (IF Strip(Head(xs)) # "" THEN <<Lower(Strip(Head(xs)))>> ELSE <<>>)
         \o StripLowerNonEmpty(Tail(xs))

_parse_filter_values(raw) ==
    IF raw.kind = "none" THEN <<>>
    ELSE IF raw.kind = "list" THEN StripLowerNonEmpty(raw.items)
    ELSE StripLowerNonEmpty(Split(raw.text, {";", ",", "\n"}))

\* The match that compares the value as it is written, its case kept.
MatchesCaseKept(source_note, source_values, filter_cfg) ==
    IF filter_cfg = EmptyFilter THEN TRUE
    ELSE LET field == Strip(filter_cfg.source_field)
             values == _parse_filter_values(filter_cfg.values)
             hay == _get_value(source_values, source_note, field)
         IN  IF field = "" \/ values = <<>> THEN TRUE
             ELSE IF hay = "" THEN FALSE
             ELSE IF Lower(filter_cfg.mode) = "equals"
                  THEN \E i \in 1..Len(values) : hay = values[i]
                  ELSE \E i \in 1..Len(values) : Contains(hay, values[i])

_matches_filter(source_note, source_values, filter_cfg) ==
    IF filter_cfg = EmptyFilter THEN TRUE
    ELSE LET field == Strip(filter_cfg.source_field)
             values == _parse_filter_values(filter_cfg.values)
             hay == Lower(_get_value(source_values, source_note, field))
             mode == Lower(IF filter_cfg.mode = "" THEN "contains" ELSE filter_cfg.mode)
         IN  IF field = "" THEN TRUE
             ELSE IF values = <<>> THEN TRUE
             ELSE IF hay = "" THEN FALSE
             ELSE IF mode = "equals"
                  THEN \E i \in 1..Len(values) : hay = values[i]
                  ELSE \E i \in 1..Len(values) : Contains(hay, values[i])

RECURSIVE SelectFrom(_, _, _, _)
\* The loop of _select_category from position i on: the index of the first
\* category whose filter matches, 0 for None.
SelectFrom(source_note, source_values, categories, i) ==
    IF i > Len(categories) THEN 0
    ELSE IF _matches_filter(source_note, source_values, categories[i].filter) THEN i
    ELSE SelectFrom(source_note, source_values, categories, i + 1)

\* The selector returning the last matching category instead of the first.
SelectLastMatch(source_note, source_values, categories) ==
    LET M == {i \in 1..Len(categories) :
                 _matches_filter(source_note, source_values, categories[i].filter)}
    IN  IF M = {} THEN 0 ELSE CHOOSE i \in M : \A j \in M : j <= i

_select_category(source_note, source_values, categories) ==
    SelectFrom(source_note, source_values, categories, 1)

(***************************************************************************)
(* Tag and link text.                                                      *)
(***************************************************************************)

RECURSIVE CollapseSpace(_)
\* re.sub(r"\s+", "_", text)
CollapseSpace(s) ==
    IF s = "" THEN ""
    ELSE IF IsSpace(Head(s))
         THEN IF Len(s) > 1 /\ IsSpace(CharAt(s, 2))
              THEN CollapseSpace(Tail(s))
              ELSE "_" \o CollapseSpace(Tail(s))
         ELSE Head(s) \o CollapseSpace(Tail(s))

RECURSIVE RemoveChars(_, _)
\* re.sub(r"[<chars>]", "", text)
RemoveChars(s, chars) ==
    IF s = "" THEN ""
    ELSE (IF Head(s) \in chars THEN "" ELSE Head(s)) \o RemoveChars(Tail(s), chars)

\* The text with its whitespace replaced and its brackets kept.
SpacesOnly(text) == CollapseSpace(text)

_safe_tag_component(text) ==
    IF text = "" THEN "" ELSE RemoveChars(CollapseSpace(text), {"[", "]", "<", ">"})

\* The label as it was typed, its brackets not escaped.
LabelAsTyped(text) == text

RECURSIVE ReplaceBrackets(_)
ReplaceBrackets(s) ==
    IF s = "" THEN ""
    ELSE (IF Head(s) = "[" THEN "\\[" ELSE IF Head(s) = "]" THEN "\\]" ELSE Head(s))
         \o ReplaceBrackets(Tail(s))

_escape_note_link_label(text) == IF text = "" THEN "" ELSE ReplaceBrackets(text)

DigitChars == "0123456789"

RECURSIVE IntToStr(_)
\* str(n) for n >= 0
IntToStr(n) ==
    IF n < 10 THEN CharAt(DigitChars, n + 1)
    ELSE IntToStr(n \div 10) \o CharAt(DigitChars, (n % 10) + 1)

\* The characters of the texts of the model, in code point order.
AsciiChars ==
    "\t\n\r !" \o "\"" \o "#$%&'(" \o ")*+,-./0123456789:;<=>?@ABCDEFGHIJKLMNOPQRSTUVWXYZ["
    \o "\\" \o "]^_abcdefghijklmnopqrstuvwxyz{|}~"

Ord(c) == CHOOSE i \in 1..Len(AsciiChars) : CharAt(AsciiChars, i) = c

RECURSIVE StrLess(_, _)
\* a < b on str
StrLess(a, b) ==
    IF b = "" THEN FALSE
    ELSE IF a = "" THEN TRUE
    ELSE IF Head(a) = Head(b) THEN StrLess(Tail(a), Tail(b))
    ELSE Ord(Head(a)) < Ord(Head(b))

RECURSIVE SortedDescending(_)
\* The elements of S from the greatest to the least.
SortedDescending(S) ==
    IF S = {} THEN <<>>
    ELSE LET m == CHOOSE x \in S : \A y \in S \ {x} : StrLess(y, x)
         IN  <<m>> \o SortedDescending(S \ {m})

RECURSIVE Sorted(_)
\* sorted(set of str)
Sorted(S) ==
    IF S = {} THEN <<>>
    ELSE LET m == CHOOSE x \in S : \A y \in S \ {x} : StrLess(x, y)
         IN  <<m>> \o Sorted(S \ {m})

\* The link tag made of the Vocab value alone.
LinkTagVocabOnly(source_note, nid, cfg, source_values) ==
    LET vocab_safe == _safe_tag_component(_get_value(source_values, source_note, "Vocab"))
    IN  IF vocab_safe # ""
        THEN cfg.tags.link_tag_prefix \o "::" \o vocab_safe \o "::" \o IntToStr(nid)
        ELSE ""

\* The link tag of _collect_tags and _mark_source_note: "" for None.
LinkTag(source_note, nid, cfg, source_values) ==
    LET v == _get_value(source_values, source_note, "Vocab")
        vocab == IF v # "" THEN v ELSE _get_value(source_values, source_note, "VocabFurigana")
        vocab_safe == _safe_tag_component(vocab)
    IN  IF vocab_safe # ""
        THEN cfg.tags.link_tag_prefix \o "::" \o vocab_safe \o "::" \o IntToStr(nid)
        ELSE ""

\* The marking that appends its two tags whether the note has them or not.
MarkAppending(source_note, nid, cfg, source_values, linked_id) ==
    LET link_tag == LinkTag(source_note, nid, cfg, source_values)
        link == "[Created Card|nid" \o IntToStr(linked_id) \o "]"
        current == _get_field(source_note, "LinkedNotes")
    IN  [source_note EXCEPT
            !.tags = Append(source_note.tags, cfg.tags.processed_tag)
                     \o (IF link_tag # "" THEN <<link_tag>> ELSE <<>>),
            !.flds = IF "LinkedNotes" \in DOMAIN source_note.flds
                     THEN [source_note.flds EXCEPT !["LinkedNotes"] = current \o link]
                     ELSE source_note.flds]

\* The marking that assigns the tag list instead of adding to it.
MarkReplacingTags(source_note, nid, cfg, source_values, linked_id) ==
    [source_note EXCEPT !.tags = <<cfg.tags.processed_tag>>]

_mark_source_note(source_note, nid, cfg, source_values, linked_id) ==
    LET processed_tag == cfg.tags.processed_tag
        link_tag == LinkTag(source_note, nid, cfg, source_values)
        tags1 == IF ~InSeq(processed_tag, source_note.tags)
                 THEN Append(source_note.tags, processed_tag)
                 ELSE source_note.tags
        tags2 == IF link_tag # "" /\ ~InSeq(link_tag, tags1)
                 THEN Append(tags1, link_tag)
                 ELSE tags1
        label == _escape_note_link_label("Created Card")
        token == "nid" \o IntToStr(linked_id)
        link == "[" \o label \o "|" \o token \o "]"
        current == _get_field(source_note, "LinkedNotes")
        sep == IF Strip(current) # "" THEN "<br>" ELSE ""
        flds1 == IF "LinkedNotes" \in DOMAIN source_note.flds /\ ~Contains(current, token)
                 THEN [source_note.flds EXCEPT !["LinkedNotes"] = current \o sep \o link]
                 ELSE source_note.flds
    IN  [source_note EXCEPT !.tags = tags2, !.flds = flds1]

(***************************************************************************)
(* Value resolver and field mapping.                                       *)
(***************************************************************************)

RECURSIVE ValidFields(_)
ValidFields(raw) ==
    IF raw = <<>> THEN <<>>
    ELSE (IF Strip(Head(raw).id) # "" /\ Strip(Head(raw).type) # "" THEN <<Head(raw)>> ELSE <<>>)
         \o ValidFields(Tail(raw))

\* The virtual fields with an id and a type.
_get_virtual_fields(cfg) == ValidFields(cfg.virtual_fields)

\* The virtual value whose fallback type reads the fallback field first.
FallbackFieldFirst(vf, source_note, nid, cfg, source_values) ==
    IF Strip(vf.type) = "fallback"
    THEN LET fallback == _get_value(source_values, source_note, vf.fallback)
         IN  IF fallback # "" THEN fallback
             ELSE _get_value(source_values, source_note, vf.primary)
    ELSE IF Strip(vf.type) = "note_link"
         THEN "[" \o _escape_note_link_label(IF vf.label # "" THEN vf.label ELSE "Source")
              \o "|nid" \o IntToStr(nid) \o "]"
    ELSE IF Strip(vf.type) \in {"copy", "to_tag"}
         THEN _get_value(source_values, source_note, vf.source)
    ELSE ""

\* A virtual field is [id, type, source, primary, fallback, label].
_compute_virtual_value(vf, source_note, nid, cfg, source_values) ==
    IF Strip(vf.type) = "copy" THEN _get_value(source_values, source_note, vf.source)
    ELSE IF Strip(vf.type) = "fallback"
         THEN LET primary == _get_value(source_values, source_note, vf.primary)
              IN  IF primary # "" THEN primary
                  ELSE _get_value(source_values, source_note, vf.fallback)
    ELSE IF Strip(vf.type) = "note_link"
         THEN "[" \o _escape_note_link_label(IF vf.label # "" THEN vf.label ELSE "Source")
              \o "|nid" \o IntToStr(nid) \o "]"
    ELSE IF Strip(vf.type) = "to_tag" THEN _get_value(source_values, source_note, vf.source)
    ELSE ""

\* key.split(":", 1)[1]
AfterColon(key, prefix) == SubSeq(key, Len(prefix) + 1, Len(key))

\* The resolver that answers a computed key with the key itself.
ValueOrKey(key, source_note, nid, cfg, source_values) ==
    IF key = "" \/ key = "ignore" THEN ""
    ELSE IF StartsWith(key, "value:")
         THEN _get_value(source_values, source_note, AfterColon(key, "value:"))
    ELSE key

\* The romanising branches (to_hepburn, computed:VocabHepburn) are not taken:
\* no configuration or note type of the model names them.
_compute_value(key, source_note, nid, cfg, source_values) ==
    IF key = "" \/ key = "ignore" THEN ""
    ELSE IF StartsWith(key, "value:")
         THEN _get_value(source_values, source_note, AfterColon(key, "value:"))
    ELSE IF StartsWith(key, "computed:")
         THEN LET vid == AfterColon(key, "computed:")
                  vfs == _get_virtual_fields(cfg)
              IN  IF \E i \in 1..Len(vfs) : vfs[i].id = vid
                  THEN LET last == CHOOSE i \in 1..Len(vfs) :
                                     /\ vfs[i].id = vid
                                     /\ \A j \in (i + 1)..Len(vfs) : vfs[j].id # vid
                       IN  _compute_virtual_value(vfs[last], source_note, nid, cfg, source_values)
                  ELSE IF vid = "Vocab"
                       THEN _get_value(source_values, source_note, "VocabFurigana")
                  ELSE IF vid = "VocabMeaning"
                       THEN LET val == _get_value(source_values, source_note, "SelectionText")
                            IN  IF val # "" THEN val
                                ELSE _get_value(source_values, source_note, "GlossaryFirst")
                  ELSE IF vid = "FamilyID"
                       THEN _get_value(source_values, source_note, "VocabFurigana")
                  ELSE IF vid = "SourceNoteLink"
                       THEN "[" \o _escape_note_link_label("Source") \o "|nid" \o IntToStr(nid) \o "]"
                  ELSE ""
    ELSE ""

\* DEFAULT_FIELD_MAPPING without its VocabHepburn entry (see _compute_value).
DEFAULT_FIELD_MAPPING ==
    [Vocab |-> "value:Vocab", VocabReading |-> "value:VocabReading",
     VocabMeaning |-> "computed:VocabMeaning", VocabAudio |-> "value:VocabAudio",
     FamilyID |-> "computed:FamilyID", LinkedCards |-> "computed:LinkedCards"]

\* The field map with the built-in key wherever there is one.
DefaultsFirst(field_map, target_model) ==
    LET names == {target_model.flds[i] : i \in 1..Len(target_model.flds)}
        added == {n \in names : n \in DOMAIN DEFAULT_FIELD_MAPPING}
    IN  [n \in (DOMAIN field_map) \cup added |->
            IF n \in added THEN DEFAULT_FIELD_MAPPING[n] ELSE field_map[n]]

\* A note type is [name, flds]; a field map maps target field names to keys.
_ensure_defaults(field_map, target_model) ==
    LET names == {target_model.flds[i] : i \in 1..Len(target_model.flds)}
        added == {n \in names : n \notin DOMAIN field_map /\ n \in DOMAIN DEFAULT_FIELD_MAPPING}
    IN  [n \in (DOMAIN field_map) \cup added |->
            IF n \in DOMAIN field_map THEN field_map[n] ELSE DEFAULT_FIELD_MAPPING[n]]

\* col.new_note(target_model) followed by _apply_field_mapping: the fields of
\* the new note.
_apply_field_mapping(source_note, nid, source_values, field_map, target_model, cfg) ==
    LET names == {target_model.flds[i] : i \in 1..Len(target_model.flds)}
        key(n) == IF n \in DOMAIN field_map THEN field_map[n] ELSE "ignore"
    IN  [n \in names |->
            IF key(n) = "ignore" THEN ""
            ELSE _compute_value(key(n), source_note, nid, cfg, source_values)]

(***************************************************************************)
(* Tag transformer and tag collection.                                     *)
(***************************************************************************)

RECURSIVE NonEmpty(_)
NonEmpty(xs) ==
    IF xs = <<>> THEN <<>>
    ELSE (IF Head(xs) # "" THEN <<Head(xs)>> ELSE <<>>) \o NonEmpty(Tail(xs))

_normalize_tags(raw) ==
    IF raw = "" THEN <<>> ELSE NonEmpty(Split(raw, {" ", "\t", "\n", "\r", ",", ";"}))

RECURSIVE RemoveAll(_, _)
\* s.replace(sym, "")
RemoveAll(s, sym) ==
    IF sym = "" \/ s = "" THEN s
    ELSE IF StartsWith(s, sym) THEN RemoveAll(SubSeq(s, Len(sym) + 1, Len(s)), sym)
    ELSE Head(s) \o RemoveAll(Tail(s), sym)

RECURSIVE RemoveEach(_, _)
\* for sym in drop: tag = tag.replace(sym, "")
RemoveEach(tag, drop) ==
    IF drop = <<>> THEN tag ELSE RemoveEach(RemoveAll(tag, Head(drop)), Tail(drop))

\* The cleaning that removes the first drop string only.
StripFirstDropOnly(tag, drop) ==
    IF tag = "" \/ drop = <<>> THEN Strip(tag) ELSE Strip(RemoveAll(tag, Head(drop)))

_strip_noise_symbols(tag, drop) == IF tag = "" THEN "" ELSE Strip(RemoveEach(tag, drop))

SeqSet(xs) == {xs[i] : i \in 1..Len(xs)}

\* The loop body with the prefix put before the mapped tags too.
TagsOfMappedPrefixed(tag, tcfg) ==
    LET prefix == _safe_tag_component(tcfg.prefix)
        cleaned == _strip_noise_symbols(tag, tcfg.drop)
    IN  IF cleaned = "" \/ InSeq(cleaned, tcfg.drop) THEN {}
        ELSE IF cleaned \in DOMAIN tcfg.mapping
             THEN {prefix \o m : m \in SeqSet(tcfg.mapping[cleaned]) \ {""}}
        ELSE {prefix \o _safe_tag_component(cleaned)}

\* The body of the loop of _transform_tags: the tags one raw tag adds to out.
\* tag_transform is [prefix, mapping, drop]; mapping maps a cleaned tag to the
\* list of its tags (a single tag is a list of one).
TagsOf(tag, tcfg) ==
    LET prefix == _safe_tag_component(tcfg.prefix)
        cleaned == _strip_noise_symbols(tag, tcfg.drop)
    IN  IF cleaned = "" \/ InSeq(cleaned, tcfg.drop) THEN {}
        ELSE IF cleaned \in DOMAIN tcfg.mapping THEN SeqSet(tcfg.mapping[cleaned]) \ {""}
        ELSE {prefix \o _safe_tag_component(cleaned)}

_transform_tags(raw_tags, cfg) ==
    Sorted(UNION {TagsOf(raw_tags[i], cfg.tag_transform) : i \in 1..Len(raw_tags)})

\* The tags of the to_tag virtual fields, passed through the tag transformer.
CollectVirtualTransformed(source_note, nid, cfg, source_values) ==
    LET vfs == _get_virtual_fields(cfg)
    IN  Sorted(UNION {SeqSet(_transform_tags(_normalize_tags(
                          _compute_virtual_value(vfs[i], source_note, nid, cfg, source_values)),
                          cfg)) :
                      i \in {i \in 1..Len(vfs) : Strip(vfs[i].type) = "to_tag"}})

_collect_virtual_tags(source_note, nid, cfg, source_values) ==
    LET vfs == _get_virtual_fields(cfg)
    IN  Sorted(UNION {SeqSet(_normalize_tags(
                          _compute_virtual_value(vfs[i], source_note, nid, cfg, source_values))) :
                      i \in {i \in 1..Len(vfs) : Strip(vfs[i].type) = "to_tag"}})

IsDigit(c) == c # "" /\ Contains(DigitChars, c)

\* A character of the regex class \w (ASCII).
IsWord(c) ==
    c # "" /\ (Contains(LowerChars, c) \/ Contains(UpperChars, c) \/ IsDigit(c) \/ c = "_")

RECURSIVE DigitRun(_, _)
\* The digits of s from position i up to the first character that is none.
DigitRun(s, i) == IF IsDigit(At(s, i)) THEN At(s, i) \o DigitRun(s, i + 1) ELSE ""

RECURSIVE AllDigits(_, _)
\* Every digit of s from position i on, the other characters left out.
AllDigits(s, i) ==
    IF i > Len(s) THEN ""
    ELSE (IF IsDigit(At(s, i)) THEN At(s, i) ELSE "") \o AllDigits(s, i + 1)

RECURSIVE FirstDigits(_, _)
\* re.search(r"\d+", s) from position i on: the match, "" for None.
FirstDigits(s, i) ==
    IF i > Len(s) THEN ""
    ELSE IF IsDigit(At(s, i)) THEN DigitRun(s, i)
    ELSE FirstDigits(s, i + 1)

\* The digit after the spaces at position i, whichever digit and whatever
\* follows it.
LevelAtAnyDigit(s, i) ==
    LET p == SkipSpaces(s, i)
    IN  IF IsDigit(At(s, p)) THEN At(s, p) ELSE ""

\* \s*([1-5])\b at position i: the digit, "" when it does not match.
LevelAt(s, i) ==
    LET p == SkipSpaces(s, i)
    IN  IF At(s, p) \in {"1", "2", "3", "4", "5"} /\ ~IsWord(At(s, p + 1)) THEN At(s, p) ELSE ""

RECURSIVE SkipSymbols(_, _)
\* The position after a run [^0-9A-Za-z]* that starts at i.
SkipSymbols(s, i) ==
    IF i <= Len(s) /\ (~IsWord(At(s, i)) \/ At(s, i) = "_") THEN SkipSymbols(s, i + 1) ELSE i

\* (?i)\bJLPT\b[^0-9A-Za-z]*N?\s*([1-5])\b at position i
JlptAt(s, i) ==
    IF /\ i + 3 <= Len(s)
       /\ Lower(SubSeq(s, i, i + 3)) = "jlpt"
       /\ ~IsWord(At(s, i - 1))
       /\ ~IsWord(At(s, i + 4))
    THEN LET j == SkipSymbols(s, i + 4)
         IN  IF Lower(At(s, j)) = "n" THEN LevelAt(s, j + 1) ELSE LevelAt(s, j)
    ELSE ""

\* (?i)\bN\s*([1-5])\b at position i
NLevelAt(s, i) ==
    IF Lower(At(s, i)) = "n" /\ ~IsWord(At(s, i - 1)) THEN LevelAt(s, i + 1) ELSE ""

RECURSIVE SearchLevel(_, _, _)
\* re.search of one of the two patterns from position i on: group 1, "" for None.
SearchLevel(s, i, jlpt) ==
    IF i > Len(s) THEN ""
    ELSE LET m == IF jlpt THEN JlptAt(s, i) ELSE NLevelAt(s, i)
         IN  IF m # "" THEN m ELSE SearchLevel(s, i + 1, jlpt)

\* The level found in a text without markup.
LevelOf(text) ==
    IF text = "" THEN ""
    ELSE IF SearchLevel(text, 1, TRUE) # "" THEN SearchLevel(text, 1, TRUE)
    ELSE SearchLevel(text, 1, FALSE)

_extract_jlpt_level(raw) == CHOOSE m \in {LevelOf(text) : text \in {_strip_html_text(raw)}} : TRUE

\* The frequency tag of _collect_tags (lines 389-395), as a set.
FreqTags(source_note, source_values) ==
    LET v == _get_value(source_values, source_note, "FreqJPDB")
        freq_jpdb == IF v # "" THEN v ELSE _get_value(source_values, source_note, "FeqJPDB")
    IN  IF FirstDigits(freq_jpdb, 1) # "" THEN {"Freq::" \o FirstDigits(freq_jpdb, 1)} ELSE {}

\* The JLPT tag of _collect_tags (lines 397-401), as a set.
JlptTags(source_note, source_values) ==
    LET level == _extract_jlpt_level(_get_value(source_values, source_note, "FreqJLPT"))
    IN  IF level # "" THEN {"JLPT::N" \o level} ELSE {}

_collect_tags(source_note, nid, cfg, source_values) ==
    LET tags_field == _get_value(source_values, source_note, "Tags")
        link_tag == LinkTag(source_note, nid, cfg, source_values)
    IN  Sorted(SeqSet(_transform_tags(_normalize_tags(tags_field), cfg))
               \cup SeqSet(_collect_virtual_tags(source_note, nid, cfg, source_values))
               \cup FreqTags(source_note, source_values)
               \cup JlptTags(source_note, source_values)
               \cup {cfg.tags.export_tag}
               \cup (IF link_tag # "" THEN {link_tag} ELSE {}))

(***************************************************************************)
(* The host: note types, notes the user adds, configurations.              *)
(***************************************************************************)

\* Bounds of the model.
MaxUserNotes == 2

MaxNotes == 4

MaxDepth == 2

\* col.models: note types 1 and 4 are dictionary import types, note types 2
\* and 5 card types; no other id names a note type.
NoteTypes ==
    (1 :> [name |-> "Yomitan", flds |-> <<"PartOfSpeech", "Vocab", "LinkedNotes">>])
    @@ (2 :> [name |-> "Card", flds |-> <<"Vocab", "Note">>])
    @@ (4 :> [name |-> "Term",
              flds |-> <<"PartOfSpeech", "POS", "Vocab", "VocabFurigana", "Tags", "Extra",
                         "FreqJPDB", "FeqJPDB", "FreqJLPT", "SelectionText", "GlossaryFirst",
                         "LinkedNotes">>])
    @@ (5 :> [name |-> "Entry",
              flds |-> <<"Vocab", "Meaning", "Link", "Plain", "Unknown", "Odd", "FamilyID",
                         "Legacy", "VocabMeaning", "Note">>])

\* The tag names of the configuration (cfg["tags"]).
TagsCfg == [processed_tag |-> "done", export_tag |-> "exp", link_tag_prefix |-> "lk"]

UserNote(mid, flds, tags) == [mid |-> mid, flds |-> flds, tags |-> tags, origin |-> 0, cat |-> 0]

\* The notes an import or the user adds.
UserNotes ==
    {UserNote(1, [PartOfSpeech |-> "godan, transitive", Vocab |-> "ab", LinkedNotes |-> ""], <<>>),
     UserNote(1, [PartOfSpeech |-> "noun", Vocab |-> "", LinkedNotes |-> "x"], <<"u">>),
     UserNote(1, [PartOfSpeech |-> "Adverb", Vocab |-> "c [d]", LinkedNotes |-> ""], <<>>)}

Category(id, note_type_id, filter, field_map) ==
    [id |-> id, note_type_id |-> note_type_id, filter |-> filter, field_map |-> field_map]

\* A: part of speech contains "godan"; B: the empty filter; M: part of speech
\* equals "noun", its target note type deleted; S: the empty filter, its
\* target the import type itself.
CatA ==
    Category("A", 2,
             [source_field |-> "PartOfSpeech", values |-> ListValues(<<"godan">>), mode |-> "contains"],
             [Note |-> "computed:src"])

CatB == Category("B", 2, EmptyFilter, <<>>)

CatM ==
    Category("M", 3,
             [source_field |-> "PartOfSpeech", values |-> TextValues("Noun; unknown"), mode |-> "equals"],
             <<>>)

CatS == Category("S", 1, EmptyFilter, [PartOfSpeech |-> "value:PartOfSpeech"])

\* source_note_type_id (0 for None) and source_note_type_ids.
Source(id, ids) == [id |-> id, ids |-> ids]

Config(enabled, run_on_sync, run_on_card_added, src, categories) ==
    [enabled |-> enabled, run_on_sync |-> run_on_sync, run_on_card_added |-> run_on_card_added,
     source_note_type_id |-> src.id, source_note_type_ids |-> src.ids,
     categories |-> categories,
     source_fields |-> <<"PartOfSpeech", "Vocab">>,
     virtual_fields |-> <<[id |-> "src", type |-> "note_link", source |-> "", primary |-> "",
                           fallback |-> "", label |-> ""]>>,
     tag_transform |-> [prefix |-> "", mapping |-> <<>>, drop |-> <<>>],
     tags |-> TagsCfg]

\* The effective configurations: the usual one (one source type, categories
\* A and B); the add-on disabled; no source type; no category (and no run on
\* sync); a category without target type; a category whose target is the
\* source type (and no run on sync); source type lists with a deleted and a
\* repeated type, and with the target type in it.
Configs ==
    {Config(TRUE, TRUE, TRUE, Source(1, <<>>), <<CatA, CatB>>),
     Config(FALSE, TRUE, TRUE, Source(1, <<>>), <<CatA, CatB>>),
     Config(TRUE, TRUE, TRUE, Source(0, <<>>), <<CatA, CatB>>),
     Config(TRUE, FALSE, TRUE, Source(1, <<>>), <<>>),
     Config(TRUE, TRUE, FALSE, Source(1, <<>>), <<CatA, CatM>>),
     Config(TRUE, FALSE, TRUE, Source(1, <<>>), <<CatA, CatS>>),
     Config(TRUE, TRUE, FALSE, Source(0, <<3, 1, 1>>), <<CatA, CatM>>),
     Config(TRUE, TRUE, TRUE, Source(0, <<2, 1>>), <<CatA, CatB>>)}

\* A note of the Term type: the fields named in f, the others empty.
TermNote(f, tags) ==
    [mid |-> 4,
     flds |-> f @@ [n \in SeqSet(NoteTypes[4].flds) |-> ""],
     tags |-> tags, origin |-> 0, cat |-> 0]

\* Notes of the Term type as the dictionary import leaves them.
TermNotes ==
    {TermNote([PartOfSpeech |-> "noun", Vocab |-> "ab", Tags |-> "fooXbar X n m n",
               Extra |-> "e1 e2", FreqJPDB |-> "12345 (rank)", FreqJLPT |-> "JLPT N3",
               GlossaryFirst |-> "hello"], <<>>),
     TermNote([POS |-> "Noun", VocabFurigana |-> "c [d]", Tags |-> "aaabbb aXb b",
               FeqJPDB |-> "77", FreqJLPT |-> "N6", SelectionText |-> "sel",
               GlossaryFirst |-> "<b>g</b>"], <<>>),
     TermNote([PartOfSpeech |-> "Adverb", Vocab |-> "[]", FreqJPDB |-> "n/a",
               FreqJLPT |-> "level 3", LinkedNotes |-> "x"], <<>>),
     TermNote([PartOfSpeech |-> "v5k", Vocab |-> "v", Tags |-> "X, ;", FreqJPDB |-> "a12b34",
               FreqJLPT |-> "jlpt-n2"], <<"lk::v::1", "u">>),
     TermNote([PartOfSpeech |-> "Godan verb", Vocab |-> "aB", Tags |-> "[] <c> z n",
               FreqJLPT |-> "N35", GlossaryFirst |-> "Hello"], <<>>),
     TermNote([Vocab |-> "w", FreqJLPT |-> "JLPTN3", SelectionText |-> " a  b<br>c"], <<>>),
     TermNote([PartOfSpeech |-> "xyz Abc", Vocab |-> "w", Extra |-> "n X[y]", FreqJPDB |-> "007",
               FreqJLPT |-> "N 1"], <<>>),
     TermNote([Vocab |-> "w", Tags |-> "b a b", FreqJLPT |-> "JLPT 4"], <<>>)}

\* The collections a run starts from: one Term note, or the note that has a
\* LinkedNotes text followed by an untagged one.
TermCollections ==
    {<<n>> : n \in TermNotes}
    \cup {<<a, b>> : a \in {n \in TermNotes : n.flds["LinkedNotes"] = "x"},
                      b \in {n \in TermNotes : n.tags = <<>>}}

VirtualField(id, type, source, primary, fallback, label) ==
    [id |-> id, type |-> type, source |-> source, primary |-> primary, fallback |-> fallback,
     label |-> label]

\* The field map of the categories that make Entry notes.
EntryMap ==
    [Meaning |-> "computed:meaning", Link |-> "computed:link", Plain |-> "computed:plain",
     Unknown |-> "computed:nope", Odd |-> "computed:odd", Legacy |-> "computed:SourceNoteLink"]

\* The field map of a category that ignores Vocab, sets FamilyID itself and
\* names a field the Entry type does not have.
OwnMap ==
    [Vocab |-> "ignore", FamilyID |-> "value:Vocab", Ghost |-> "value:Vocab"] @@ EntryMap

EntryFields ==
    <<VirtualField("meaning", "fallback", "", "SelectionText", "GlossaryFirst", ""),
      VirtualField("link", "note_link", "", "", "", "A[1]"),
      VirtualField("plain", "note_link", "", "", "", ""),
      VirtualField("odd", "weird", "Vocab", "", "", ""),
      VirtualField("t", "to_tag", "Extra", "", "", "")>>

EntryCategory(id, source_field, values, mode) ==
    Category(id, 5, [source_field |-> source_field, values |-> values, mode |-> mode], EntryMap)

\* The configurations of the Term type: two tag transforms, and category
\* lists whose rules cover both modes and the rules without field or values.
TermConfigs ==
    {[Config(TRUE, TRUE, TRUE, Source(4, <<>>),
             <<EntryCategory("K1", "PartOfSpeech", ListValues(<<" Noun ">>), "equals"),
               EntryCategory("K2", "PartOfSpeech", TextValues("v5k; adv"), ""),
               EntryCategory("K3", "", ListValues(<<"x">>), "equals"),
               EntryCategory("K4", "PartOfSpeech", NoValues, "contains"),
               Category("K5", 5, EmptyFilter, EntryMap)>>)
        EXCEPT !.source_fields = <<"PartOfSpeech", "Vocab", "SelectionText", "GlossaryFirst">>,
               !.virtual_fields = EntryFields,
               !.tag_transform = [prefix |-> "",
                                  mapping |-> ("n" :> <<"noun", "exp">>) @@ ("m" :> <<"noun">>)
                                              @@ ("z" :> <<"">>),
                                  drop |-> <<"X">>]],
     [Config(TRUE, TRUE, TRUE, Source(4, <<>>),
             <<EntryCategory("K6", "GlossaryFirst", ListValues(<<"hello">>), "Equals"),
               EntryCategory("K7", "Vocab", ListValues(<<"B">>), "contains"),
               EntryCategory("K8", "PartOfSpeech", ListValues(<<"godan", "noun">>), "contains"),
               Category("K9", 5, [source_field |-> "Vocab", values |-> ListValues(<<"w">>),
                                  mode |-> "equals"], OwnMap)>>)
        EXCEPT !.source_fields = <<"PartOfSpeech", "Vocab", "SelectionText", "GlossaryFirst">>,
               !.virtual_fields = EntryFields,
               !.tag_transform = [prefix |-> "p ",
                                  mapping |-> ("n" :> <<"", "N [x]">>) @@ ("z" :> <<"">>),
                                  drop |-> <<"ab", "X">>]]}

(***************************************************************************)
(* State.                                                                  *)
(***************************************************************************)

VARIABLES
    notes,                    \* the collection: notes[i] is the note with id i
    cfg,                      \* the effective configuration (_CONFIG_CACHE)
    _RUNNING,                 \* the re-entrancy flag
    _PENDING_CARD_ADDED_RUN,  \* a deferred run is scheduled
    _SESSION_PROCESSED,       \* notes created in this session
    runs,                     \* the run_conversion calls inside convert_notes, innermost last
    timers,                   \* the single-shot timers of deferred runs that have not fired
    disk,                     \* the add-on directory: config.json, meta.json and the loads so far
    last,                     \* history: the last call of run_conversion and how it ended
    settled                   \* history: a run went through since the last outside note

vars ==
    <<notes, cfg, _RUNNING, _PENDING_CARD_ADDED_RUN, timers, disk, _SESSION_PROCESSED, runs, last,
      settled>>

\* A call record: kind is how the call ended, tip the tooltip it showed; the
\* counters are those of a call that completed (submitted: the notes the
\* collection received during the call).
Outcome(kind, manual, tip, f) ==
    [kind |-> kind, manual |-> manual, tip |-> tip, created |-> f.created,
     skipped |-> f.skipped, returned |-> f.returned, submitted |-> f.submitted,
     quiet |-> f.quiet]

\* The locals of a convert_notes call: the source type ids and note ids still
\* to visit, the counters, and history (returned: notes the queries returned;
\* base: size of the collection at the call; quiet: settled held at the call).
Frame(manual, sids) ==
    [manual |-> manual, sids |-> sids, queue |-> <<>>, created |-> 0, skipped |-> 0,
     returned |-> 0, base |-> Len(notes), quiet |-> settled]

NoFrame == [created |-> 0, skipped |-> 0, returned |-> 0, submitted |-> 0, quiet |-> FALSE]

\* The add-on directory as the runs see it: the configuration was loaded
\* before the first trigger and cfg is what the load returned.
NoDisk == [addon |-> "modules", exists |-> FALSE, root |-> <<>>, meta |-> <<>>,
           loads |-> 0, changed |-> FALSE, saved |-> FALSE]

Init ==
    /\ settled = FALSE
    /\ notes = <<>>
    /\ cfg \in Configs
    /\ _RUNNING = FALSE
    /\ _PENDING_CARD_ADDED_RUN = FALSE
    /\ timers = 0
    /\ disk = NoDisk
    /\ _SESSION_PROCESSED = 0
    /\ runs = <<>>
    /\ last = Outcome("none", FALSE, "none", NoFrame)

(***************************************************************************)
(* run_conversion and the triggers that call it.                           *)
(***************************************************************************)

\* The guard left out: no call is turned away.
RejectsNever(running) == FALSE

\* if _RUNNING: return
Rejects(running) == running

\* The flag reset left out of the finally clause.
CleanupLeftOut(running) == running

\* finally: _RUNNING = False
Cleanup(running) == FALSE

\* The tooltip shown without the "if manual" guard.
TipAlways(manual, tip) == tip

\* tooltip(...) guarded by "if manual"
ManualTip(manual, tip) == IF manual THEN tip ELSE "none"

\* tooltip(f"Yomitran import failed: {exc}") in the except clause
FailureTip(manual) == "failed"

\* The source type ids with the first note type as a fallback.
SourceIdsOrFirst(c) ==
    IF c.source_note_type_id # 0 THEN <<c.source_note_type_id>>
    ELSE IF c.source_note_type_ids # <<>> THEN c.source_note_type_ids
    ELSE <<1>>

\* The source type ids convert_notes visits.
SourceIds(c) ==
    IF c.source_note_type_id # 0 THEN <<c.source_note_type_id>> ELSE c.source_note_type_ids

\* _on_note_will_be_added followed by _schedule_card_added_run: whether a
\* note of type mid leaves a deferred run pending.
_on_note_will_be_added(pending, mid) ==
    IF ~cfg.enabled THEN pending
    ELSE IF cfg.source_note_type_id # 0 /\ mid # cfg.source_note_type_id THEN pending
    ELSE IF cfg.run_on_card_added THEN TRUE
    ELSE pending

\* The timers that wait when every call starts one.
ScheduleUnguarded(pending, waiting) == waiting + 1

\* _schedule_card_added_run: the timers that wait after the call; a call
\* made while the flag is set starts none.
_schedule_card_added_run(pending, waiting) == IF pending THEN waiting ELSE waiting + 1

\* _on_note_will_be_added: the timers that wait after the hook ran for a
\* note of type mid.
TimersAfter(pending, waiting, mid) ==
    IF ~cfg.enabled THEN waiting
    ELSE IF cfg.source_note_type_id # 0 /\ mid # cfg.source_note_type_id THEN waiting
    ELSE IF cfg.run_on_card_added THEN _schedule_card_added_run(pending, waiting)
    ELSE waiting

\* A call that returns before convert_notes enters its loop.
Returns(kind, manual, tip, running) ==
    /\ last' = Outcome(kind, manual, tip, NoFrame)
    /\ _RUNNING' = running
    /\ UNCHANGED <<notes, cfg, disk, _SESSION_PROCESSED, runs, settled>>

\* run_conversion(manual) up to the loop of convert_notes.  get_config may
\* raise (the configuration file cannot be read back or rewritten); mw.col is
\* None while no profile is open.
run_conversion(manual) ==
    \/ /\ Rejects(_RUNNING)
       /\ Returns("rejected", manual, "none", _RUNNING)
    \/ /\ ~Rejects(_RUNNING)
       /\ Returns("raised", manual, "none", _RUNNING)
    \/ /\ ~Rejects(_RUNNING)
       /\ ~cfg.enabled
       /\ Returns("disabled", manual, ManualTip(manual, "disabled"), _RUNNING)
    \/ /\ ~Rejects(_RUNNING)
       /\ cfg.enabled
       /\ Returns("notready", manual, "none", Cleanup(TRUE))
    \/ /\ ~Rejects(_RUNNING)
       /\ cfg.enabled
       /\ SourceIds(cfg) = <<>>
       /\ Returns("nosrc", manual, ManualTip(manual, "nosrc"), Cleanup(TRUE))
    \/ /\ ~Rejects(_RUNNING)
       /\ cfg.enabled
       /\ SourceIds(cfg) # <<>>
       /\ cfg.categories = <<>>
       /\ Returns("nocat", manual, ManualTip(manual, "nocat"), Cleanup(TRUE))
    \/ /\ ~Rejects(_RUNNING)
       /\ cfg.enabled
       /\ SourceIds(cfg) # <<>>
       /\ cfg.categories # <<>>
       /\ Len(runs) < MaxDepth
       /\ _RUNNING' = TRUE
       /\ runs' = Append(runs, Frame(manual, SourceIds(cfg)))
       /\ last' = Outcome("running", manual, "none", NoFrame)
       /\ UNCHANGED <<notes, cfg, disk, _SESSION_PROCESSED, settled>>

\* The menu item "Run Yomitran".
MenuRun ==
    /\ run_conversion(TRUE)
    /\ UNCHANGED <<_PENDING_CARD_ADDED_RUN, timers>>

\* sync_will_start
on_sync_start ==
    /\ cfg.run_on_sync
    /\ run_conversion(FALSE)
    /\ UNCHANGED <<_PENDING_CARD_ADDED_RUN, timers>>

\* The single-shot timer of _schedule_card_added_run fires.
TimerRun ==
    /\ timers > 0
    /\ timers' = timers - 1
    /\ _PENDING_CARD_ADDED_RUN' = FALSE
    /\ run_conversion(FALSE)

\* A note reaches the collection from outside the conversion (the Add dialog
\* or the dictionary import) while no conversion is running, since the
\* progress window of a conversion is modal; note_will_be_added fires for it.
UserAddsNote ==
    \E n \in UserNotes :
        /\ runs = <<>>
        /\ Cardinality({i \in 1..Len(notes) : notes[i].origin = 0}) < MaxUserNotes
        /\ Len(notes) < MaxNotes
        /\ notes' = Append(notes, n)
        /\ _PENDING_CARD_ADDED_RUN' = _on_note_will_be_added(_PENDING_CARD_ADDED_RUN, n.mid)
        /\ timers' = TimersAfter(_PENDING_CARD_ADDED_RUN, timers, n.mid)
        /\ settled' = FALSE
        /\ UNCHANGED <<cfg, disk, _RUNNING, _SESSION_PROCESSED, runs, last>>

(***************************************************************************)
(* convert_notes: the loop over source note types and their notes.         *)
(***************************************************************************)

Top == runs[Len(runs)]

Pop == SubSeq(runs, 1, Len(runs) - 1)

_get_target_model(model_id) ==
    IF model_id = 0 THEN 0
    ELSE IF model_id \in DOMAIN NoteTypes THEN model_id
    ELSE 0

\* col.find_notes('note:"<name>" -tag:"<processed_tag>"'): the ids of the
\* notes of the type that do not carry the tag, ascending.
RECURSIVE find_notes(_, _, _)
find_notes(mid, processed_tag, from) ==
    IF from > Len(notes) THEN <<>>
    ELSE (IF notes[from].mid = mid /\ ~InSeq(processed_tag, notes[from].tags)
          THEN <<from>> ELSE <<>>)
         \o find_notes(mid, processed_tag, from + 1)

\* The category index chosen for note nid, 0 for None.
CategoryOf(nid) ==
    CHOOSE c \in {_select_category(notes[nid], source_values, cfg.categories) :
                    source_values \in {_build_source_values(notes[nid], cfg)}} : TRUE

\* The target note type of note nid, 0 when it has no category or no target.
TargetOf(nid) ==
    CHOOSE mid \in {IF c = 0 THEN 0 ELSE _get_target_model(cfg.categories[c].note_type_id) :
                     c \in {CategoryOf(nid)}} : TRUE

\* The note built for source note nid from its values and its category c:
\* field mapping and collected tags.
BuildNote(nid, source_values, c) ==
    LET source_note == notes[nid]
        category == cfg.categories[c]
        mid == _get_target_model(category.note_type_id)
        target_model == NoteTypes[mid]
        field_map == _ensure_defaults(category.field_map, target_model)
    IN  [mid |-> mid,
         flds |-> _apply_field_mapping(source_note, nid, source_values, field_map, target_model, cfg),
         tags |-> _collect_tags(source_note, nid, cfg, source_values),
         origin |-> nid,
         cat |-> c]

\* The note built for source note nid; the source values are built once and
\* the category selected once, as in the loop of _convert_notes.
NewNote(nid) ==
    CHOOSE new_note \in
        UNION {{BuildNote(nid, source_values, c) :
                   c \in {_select_category(notes[nid], source_values, cfg.categories)}} :
               source_values \in {_build_source_values(notes[nid], cfg)}} : TRUE

\* The next source type: skipped when its definition is missing, else queried.
NextModel ==
    /\ runs # <<>>
    /\ Top.queue = <<>>
    /\ Top.sids # <<>>
    /\ LET mid == _get_target_model(Head(Top.sids))
           note_ids == find_notes(mid, cfg.tags.processed_tag, 1)
       IN  runs' = IF mid = 0
                   THEN Append(Pop, [Top EXCEPT !.sids = Tail(@)])
                   ELSE Append(Pop, [Top EXCEPT !.sids = Tail(@), !.queue = note_ids,
                                                !.returned = @ + Len(note_ids)])
    /\ UNCHANGED <<notes, cfg, disk, _RUNNING, _PENDING_CARD_ADDED_RUN, timers,
                 _SESSION_PROCESSED, last, settled>>

\* The skip that continues without counting the note.
SkipNoteUncounted ==
    /\ runs # <<>>
    /\ Top.queue # <<>>
    /\ TargetOf(Head(Top.queue)) = 0
    /\ runs' = Append(Pop, [Top EXCEPT !.queue = Tail(@)])
    /\ UNCHANGED <<notes, cfg, disk, _RUNNING, _PENDING_CARD_ADDED_RUN, timers,
                 _SESSION_PROCESSED, last, settled>>

\* A note without category or target note type.
SkipNote ==
    /\ runs # <<>>
    /\ Top.queue # <<>>
    /\ TargetOf(Head(Top.queue)) = 0
    /\ runs' = Append(Pop, [Top EXCEPT !.queue = Tail(@), !.skipped = @ + 1])
    /\ UNCHANGED <<notes, cfg, disk, _RUNNING, _PENDING_CARD_ADDED_RUN, timers,
                 _SESSION_PROCESSED, last, settled>>

\* The store after note nid was marked with the note linked_id made from it.
MarkedStore(nid, linked_id) ==
    [notes EXCEPT ![nid] = _mark_source_note(notes[nid], nid, cfg,
                                             _build_source_values(notes[nid], cfg), linked_id)]

\* The conversion that counts a note before the collection accepted it and
\* again after.
ConvertNoteCountedTwice ==
    /\ runs # <<>>
    /\ Top.queue # <<>>
    /\ TargetOf(Head(Top.queue)) # 0
    /\ Len(notes) < MaxNotes
    /\ \E new_note \in {NewNote(Head(Top.queue))} :
           /\ notes' = Append(MarkedStore(Head(Top.queue), Len(notes) + 1), new_note)
           /\ _PENDING_CARD_ADDED_RUN' = _on_note_will_be_added(_PENDING_CARD_ADDED_RUN, new_note.mid)
           /\ timers' = TimersAfter(_PENDING_CARD_ADDED_RUN, timers, new_note.mid)
    /\ runs' = Append(Pop, [Top EXCEPT !.queue = Tail(@), !.created = @ + 2])
    /\ UNCHANGED <<cfg, disk, _RUNNING, _SESSION_PROCESSED, last, settled>>

\* A note is converted: the target is added (note_will_be_added fires), the
\* source is marked and flushed.
ConvertNote ==
    /\ runs # <<>>
    /\ Top.queue # <<>>
    /\ TargetOf(Head(Top.queue)) # 0
    /\ Len(notes) < MaxNotes
    /\ \E new_note \in {NewNote(Head(Top.queue))} :
           /\ notes' = Append(MarkedStore(Head(Top.queue), Len(notes) + 1), new_note)
           /\ _PENDING_CARD_ADDED_RUN' = _on_note_will_be_added(_PENDING_CARD_ADDED_RUN, new_note.mid)
           /\ timers' = TimersAfter(_PENDING_CARD_ADDED_RUN, timers, new_note.mid)
    /\ runs' = Append(Pop, [Top EXCEPT !.queue = Tail(@), !.created = @ + 1])
    /\ UNCHANGED <<cfg, disk, _RUNNING, _SESSION_PROCESSED, last, settled>>

\* The except and finally clauses of run_conversion.
Fails ==
    /\ last' = Outcome("failed", Top.manual, FailureTip(Top.manual), NoFrame)
    /\ _RUNNING' = Cleanup(TRUE)
    /\ runs' = Pop
    /\ UNCHANGED <<cfg, disk, _SESSION_PROCESSED, settled>>

\* col.find_notes, col.get_note or col.add_note raises: nothing was written.
HostRaises ==
    /\ runs # <<>>
    /\ \/ Top.queue # <<>>
       \/ Top.queue = <<>> /\ Top.sids # <<>> /\ _get_target_model(Head(Top.sids)) # 0
    /\ Fails
    /\ UNCHANGED <<notes, _PENDING_CARD_ADDED_RUN, timers>>

\* The source marked and flushed before the target is submitted, and the
\* submission raises: the source is marked, no target is in the collection.
MarkedThenAddRaises ==
    /\ runs # <<>>
    /\ Top.queue # <<>>
    /\ TargetOf(Head(Top.queue)) # 0
    /\ Len(notes) < MaxNotes
    /\ notes' = MarkedStore(Head(Top.queue), Len(notes) + 1)
    /\ last' = Outcome("failed", Top.manual, FailureTip(Top.manual), NoFrame)
    /\ _RUNNING' = Cleanup(TRUE)
    /\ runs' = Pop
    /\ UNCHANGED <<cfg, disk, _PENDING_CARD_ADDED_RUN, timers, _SESSION_PROCESSED, settled>>

\* source_note.flush() raises: the target is in the collection, the source
\* note is as it was.
FlushRaises ==
    /\ runs # <<>>
    /\ Top.queue # <<>>
    /\ TargetOf(Head(Top.queue)) # 0
    /\ Len(notes) < MaxNotes
    /\ \E new_note \in {NewNote(Head(Top.queue))} :
           /\ notes' = Append(notes, new_note)
           /\ _PENDING_CARD_ADDED_RUN' = _on_note_will_be_added(_PENDING_CARD_ADDED_RUN, new_note.mid)
           /\ timers' = TimersAfter(_PENDING_CARD_ADDED_RUN, timers, new_note.mid)
    /\ last' = Outcome("failed", Top.manual, FailureTip(Top.manual), NoFrame)
    /\ _RUNNING' = Cleanup(TRUE)
    /\ runs' = Pop
    /\ UNCHANGED <<cfg, disk, _SESSION_PROCESSED, settled>>

\* The loop is over: the summary, and run_conversion's bookkeeping.
Done ==
    /\ runs # <<>>
    /\ Top.queue = <<>>
    /\ Top.sids = <<>>
    /\ last' = Outcome("done", Top.manual, ManualTip(Top.manual, "summary"),
                       [created |-> Top.created, skipped |-> Top.skipped,
                        returned |-> Top.returned, submitted |-> Len(notes) - Top.base,
                        quiet |-> Top.quiet])
    /\ _SESSION_PROCESSED' = _SESSION_PROCESSED + Top.created
    /\ _RUNNING' = Cleanup(TRUE)
    /\ runs' = Pop
    /\ settled' = TRUE
    /\ UNCHANGED <<notes, cfg, disk, _PENDING_CARD_ADDED_RUN, timers>>

Next ==
    \/ MenuRun
    \/ on_sync_start
    \/ TimerRun
    \/ UserAddsNote
    \/ NextModel
    \/ SkipNote
    \/ ConvertNote
    \/ HostRaises
    \/ FlushRaises
    \/ Done

Spec == Init /\ [][Next]_vars

\* The steps of a run that is in progress.
RunStep == NextModel \/ SkipNote \/ ConvertNote \/ Done

\* ENABLED <<RunStep>>_vars, read off the guards of the four steps: a run is
\* in progress and its queue is empty (NextModel or Done), or its next note
\* is skipped, or the collection takes one more note.
RunEnabled ==
    /\ runs # <<>>
    /\ \/ Top.queue = <<>>
       \/ Len(notes) < MaxNotes
       \/ TargetOf(Head(Top.queue)) = 0

\* WF_vars(RunStep) with its ENABLED written as RunEnabled.
RunFair == []<>(~RunEnabled) \/ []<><<RunStep>>_vars

\* The triggers and the steps of the runs, the host raising nothing.
LiveNext ==
    \/ MenuRun
    \/ on_sync_start
    \/ TimerRun
    \/ UserAddsNote
    \/ NextModel
    \/ SkipNote
    \/ ConvertNote
    \/ Done

\* A run that has started goes on (convert_notes is one synchronous call),
\* and a single-shot timer that was started fires (the event loop runs); no
\* trigger from outside has to happen.
LiveSpec == Init /\ [][LiveNext]_vars /\ WF_vars(TimerRun) /\ RunFair

(***************************************************************************)
(* The conversion of single notes of the Term type: the value helpers, the *)
(* tag transformer and the filter rules applied by manual runs.            *)
(***************************************************************************)

TermInit ==
    /\ settled = FALSE
    /\ notes \in TermCollections
    /\ cfg \in TermConfigs
    /\ _RUNNING = FALSE
    /\ _PENDING_CARD_ADDED_RUN = FALSE
    /\ timers = 0
    /\ disk = NoDisk
    /\ _SESSION_PROCESSED = 0
    /\ runs = <<>>
    /\ last = Outcome("none", FALSE, "none", NoFrame)

TermNext ==
    \/ MenuRun
    \/ NextModel
    \/ SkipNote
    \/ ConvertNote
    \/ Done

TermSpec == TermInit /\ [][TermNext]_vars

(***************************************************************************)
(* The configuration documents on disk and their migration.  A document is *)
(* a function from its keys to their values; None is written 0 for an id,  *)
(* and a dict without keys is <<>>.                                         *)
(***************************************************************************)

\* The loads of one behaviour.
MaxLoads == 3

\* key in cfg
Has(doc, key) == key \in DOMAIN doc

\* cfg.get(key, default)
Get(doc, key, default) == IF Has(doc, key) THEN doc[key] ELSE default

\* cfg.pop(key, None)
Drop_(doc, key) == [k \in (DOMAIN doc) \ {key} |-> doc[k]]

\* DEFAULT_CONFIG of the legacy add-on.
LegacyDefault ==
    [auto_on_sync |-> TRUE,
     source_note_type_ids |-> <<>>,
     pos_mappings |-> [verb |-> [note_type_id |-> 0, field_map |-> <<>>],
                       adjective |-> [note_type_id |-> 0, field_map |-> <<>>],
                       other |-> [note_type_id |-> 0, field_map |-> <<>>]],
     hepburn |-> [engine |-> "pykakasi", fallback |-> "simple"],
     tags |-> [processed_tag |-> "_intern::yomitan::processed",
               export_tag |-> "_intern::yomitan_export",
               link_tag_prefix |-> "_intern::yomitan::VOCAB_AUS_DEM_ES_STAMMT"]]

\* DEFAULT_CONFIG of the schema module: the keys of the present schema, none
\* of the legacy ones.
DEFAULT_CONFIG ==
    [enabled |-> TRUE,
     run_on_sync |-> TRUE,
     run_on_card_added |-> FALSE,
     source_note_type_id |-> 0,
     source_fields |-> <<[name |-> "PartOfSpeech", label |-> "Part of Speech"],
                         [name |-> "Vocab", label |-> "Vocab"]>>,
     virtual_fields |-> <<>>,
     categories |-> <<>>,
     hepburn |-> [engine |-> "pykakasi", fallback |-> "simple"],
     tags |-> [processed_tag |-> "_intern::yomitan::processed",
               export_tag |-> "_intern::yomitan_export",
               link_tag_prefix |-> "_intern::yomitan"]]

\* The keys whose values are dicts (isinstance(value, dict)).
DictKeys == {"tags", "hepburn", "pos_mappings"}

\* merge_config: the custom document laid over the defaults, dicts merged
\* key by key.
merge_config(default, custom) ==
    [k \in (DOMAIN default) \cup (DOMAIN custom) |->
        IF ~Has(custom, k) THEN default[k]
        ELSE IF k \in DictKeys /\ Has(default, k)
             THEN [x \in (DOMAIN default[k]) \cup (DOMAIN custom[k]) |->
                      IF x \in DOMAIN custom[k] THEN custom[k][x] ELSE default[k][x]]
             ELSE custom[k]]

\* The document a migration works on and the flag it returns so far.
Migrated(doc, changed) == [cfg |-> doc, changed |-> changed]

\* if "run_on_sync" not in cfg
RunOnSync(m) ==
    IF Has(m.cfg, "run_on_sync") THEN m
    ELSE Migrated(Put(m.cfg, "run_on_sync", Get(m.cfg, "auto_on_sync", TRUE)), TRUE)

\* if "auto_on_sync" in cfg
AutoOnSync(m) ==
    IF Has(m.cfg, "auto_on_sync") THEN Migrated(Drop_(m.cfg, "auto_on_sync"), TRUE) ELSE m

\* if "run_on_card_added" not in cfg
RunOnCardAdded(m) ==
    IF Has(m.cfg, "run_on_card_added") THEN m
    ELSE Migrated(Put(m.cfg, "run_on_card_added", Get(DEFAULT_CONFIG, "run_on_card_added", FALSE)),
                  TRUE)

\* if cfg.get("source_note_type_id") is None
SourceNoteTypeId(m) ==
    IF Get(m.cfg, "source_note_type_id", 0) # 0 THEN m
    ELSE LET legacy == Get(m.cfg, "source_note_type_ids", <<>>)
         IN IF legacy = <<>> THEN m
            ELSE Migrated(Put(m.cfg, "source_note_type_id", legacy[1]), TRUE)

\* The category made of the entry of a part-of-speech group.
PosCategory(pos, default) ==
    LET entry == Get(pos, default.id, <<>>)
    IN [id |-> default.id, name |-> default.name,
        note_type_id |-> Get(entry, "note_type_id", 0),
        filter |-> default.filter,
        field_map |-> Get(entry, "field_map", <<>>)]

\* The three groups of the present add-on.
PosDefaults ==
    <<[id |-> "verb", name |-> "Verbs",
       filter |-> [source_field |-> "PartOfSpeech", values |-> <<"godan", "ichidan", "suru">>]],
      [id |-> "adjective", name |-> "Adjectives",
       filter |-> [source_field |-> "PartOfSpeech", values |-> <<"na", "i", "no">>]],
      [id |-> "other", name |-> "Other",
       filter |-> [source_field |-> "PartOfSpeech", values |-> <<>>]]>>

\* The three groups of the legacy add-on.
LegacyPosDefaults ==
    <<[id |-> "verb", name |-> "Verbs",
       filter |-> [source_field |-> "POS", values |-> <<"godan", "ichidan", "suru">>]],
      [id |-> "adjective", name |-> "Adjectives",
       filter |-> [source_field |-> "POS", values |-> <<"na/i">>]],
      [id |-> "other", name |-> "Other",
       filter |-> [source_field |-> "POS", values |-> <<>>]]>>

\* if not cfg.get("categories")
Categories(m, defaults) ==
    IF Get(m.cfg, "categories", <<>>) # <<>> THEN m
    ELSE LET pos == Get(m.cfg, "pos_mappings", <<>>)
         IN IF pos = <<>> THEN m
            ELSE Migrated(Put(m.cfg, "categories",
                              [k \in 1..Len(defaults) |-> PosCategory(pos, defaults[k])]),
                          TRUE)

\* The deprecated key marked as migrated and left in the document.
PosMappingsKept(m) ==
    IF Has(m.cfg, "pos_mappings") THEN Migrated(m.cfg, TRUE) ELSE m

\* if "pos_mappings" in cfg
PosMappings(m) ==
    IF Has(m.cfg, "pos_mappings") THEN Migrated(Drop_(m.cfg, "pos_mappings"), TRUE) ELSE m

\* if key not in cfg, for one of the keys introduced later
NewKey(m, key, default) ==
    IF Has(m.cfg, key) THEN m
    ELSE Migrated(Put(m.cfg, key, Get(default, key, <<>>)), TRUE)

\* An item of source_fields after the renaming of POS.
Renamed(item) ==
    IF Get(item, "name", "") = "POS"
    THEN LET named == Put(item, "name", "PartOfSpeech")
         IN IF Get(named, "label", "") = "" THEN Put(named, "label", "Part of Speech")
            ELSE named
    ELSE item

\* Rename old source field key POS -> PartOfSpeech when present.
RenamePOS(m) ==
    LET source_fields == Get(m.cfg, "source_fields", <<>>)
    IN IF \E k \in 1..Len(source_fields) : Get(source_fields[k], "name", "") = "POS"
       THEN Migrated(Put(m.cfg, "source_fields",
                         [k \in 1..Len(source_fields) |-> Renamed(source_fields[k])]),
                     TRUE)
       ELSE m

\* _migrate_config of the backend module: the migrated document and changed.
_migrate_config(doc) ==
    LET synced == AutoOnSync(RunOnSync(Migrated(doc, FALSE)))
        sourced == SourceNoteTypeId(RunOnCardAdded(synced))
        grouped == PosMappings(Categories(sourced, PosDefaults))
        keyed == NewKey(NewKey(grouped, "source_fields", DEFAULT_CONFIG),
                        "virtual_fields", DEFAULT_CONFIG)
    IN RenamePOS(keyed)

\* _migrate_config of the legacy add-on.
_migrate_config_legacy(doc) ==
    LET sourced == SourceNoteTypeId(Migrated(doc, FALSE))
        grouped == PosMappings(Categories(sourced, LegacyPosDefaults))
    IN NewKey(NewKey(grouped, "source_fields", LegacyDefault), "virtual_fields", LegacyDefault)

\* The backwards-compat fix of get_config for the legacy link tag prefix.
LinkPrefixFix(doc) ==
    LET tags_cfg == Get(doc, "tags", <<>>)
    IN IF Get(tags_cfg, "link_tag_prefix", "") = "_intern::yomitan::VOCAB_AUS_DEM_ES_STAMMT"
       THEN Migrated(Put(doc, "tags", Put(tags_cfg, "link_tag_prefix", "_intern::yomitan")), TRUE)
       ELSE Migrated(doc, FALSE)

\* A document as a choice among the sets of keys it may hold.
Absent == <<>>

Key(key, values) == {Absent} \cup {Put(Absent, key, v) : v \in values}

OldCategory ==
    [id |-> "K", name |-> "Mine", note_type_id |-> 2,
     filter |-> [source_field |-> "POS", values |-> <<"noun">>],
     field_map |-> Put(Absent, "Vocab", "value:Vocab")]

OldPos == Put(Absent, "verb", [note_type_id |-> 3, field_map |-> Put(Absent, "Vocab", "value:Vocab")])

OldTags == [link_tag_prefix |-> "_intern::yomitan::VOCAB_AUS_DEM_ES_STAMMT"]

OldFields ==
    {<<Put(Absent, "name", "POS"), [name |-> "Vocab", label |-> "Vocab"]>>,
     <<[name |-> "POS", label |-> "Pos"]>>,
     <<[name |-> "PartOfSpeech", label |-> "Part of Speech"]>>}

\* The documents that the versions of the add-on have written.
Docs ==
    {a @@ b @@ c @@ d @@ e @@ f @@ g @@ h @@ i @@ j :
        a \in Key("run_on_sync", {FALSE}),
        b \in Key("auto_on_sync", BOOLEAN),
        c \in Key("run_on_card_added", {TRUE}),
        d \in Key("source_note_type_id", {0, 1}),
        e \in Key("source_note_type_ids", {<<>>, <<2, 1>>}),
        f \in Key("categories", {<<>>, <<OldCategory>>}),
        g \in Key("pos_mappings", {<<>>, OldPos}),
        h \in Key("source_fields", OldFields),
        i \in Key("virtual_fields", {<<>>}),
        j \in Key("tags", {OldTags})}

\* The add-on directory before the first load: the legacy add-on with or
\* without its config.json, the present add-on with a config.json or with the
\* document still in meta.json.
DiskInit ==
    \/ \E doc \in Docs :
          disk = [addon |-> "legacy", exists |-> TRUE, root |-> doc, meta |-> <<>>,
                  loads |-> 0, changed |-> FALSE, saved |-> FALSE]
    \/ disk = [addon |-> "legacy", exists |-> FALSE, root |-> <<>>, meta |-> <<>>,
               loads |-> 0, changed |-> FALSE, saved |-> FALSE]
    \/ \E doc \in Docs :
          disk = [addon |-> "modules", exists |-> TRUE, root |-> doc, meta |-> <<>>,
                  loads |-> 0, changed |-> FALSE, saved |-> FALSE]
    \/ \E doc \in Docs, exists \in BOOLEAN :
          disk = [addon |-> "modules", exists |-> exists, root |-> <<>>, meta |-> <<doc>>,
                  loads |-> 0, changed |-> FALSE, saved |-> FALSE]

MigrateInit ==
    /\ DiskInit
    /\ settled = FALSE
    /\ notes = <<>>
    /\ cfg \in {CHOOSE c \in Configs : TRUE}
    /\ _RUNNING = FALSE
    /\ _PENDING_CARD_ADDED_RUN = FALSE
    /\ timers = 0
    /\ _SESSION_PROCESSED = 0
    /\ runs = <<>>
    /\ last = Outcome("none", FALSE, "none", NoFrame)

\* _migrate_legacy_meta_config: the document of meta.json moves to an empty
\* config.json, merged with the defaults, and leaves meta.json.
_migrate_legacy_meta_config(d) ==
    IF d.meta = <<>> THEN d
    ELSE [d EXCEPT !.root = IF d.root = <<>> THEN merge_config(DEFAULT_CONFIG, d.meta[1]) ELSE @,
                   !.exists = TRUE,
                   !.meta = <<>>]

\* ConfigBackend.load_effective: the document is read, migrated, merged with
\* the defaults, and saved when the migration changed it.
load_effective ==
    /\ disk.addon = "modules"
    /\ disk.loads < MaxLoads
    /\ \E d \in {_migrate_legacy_meta_config(disk)} :
         \E m \in {_migrate_config(d.root)} :
           disk' = [d EXCEPT !.root = IF m.changed THEN merge_config(DEFAULT_CONFIG, m.cfg) ELSE @,
                             !.exists = d.exists \/ m.changed,
                             !.loads = @ + 1,
                             !.changed = m.changed,
                             !.saved = m.changed]
    /\ UNCHANGED <<notes, cfg, _RUNNING, _PENDING_CARD_ADDED_RUN, timers, _SESSION_PROCESSED,
                   runs, last, settled>>

\* get_config of the legacy add-on: the document is read (the defaults when
\* there is no file), the link tag prefix fixed, the document migrated, and
\* written after each of the two when it changed.
get_config ==
    /\ disk.addon = "legacy"
    /\ disk.loads < MaxLoads
    /\ \E fixed \in {LinkPrefixFix(IF disk.exists THEN disk.root ELSE LegacyDefault)} :
         \E m \in {_migrate_config_legacy(fixed.cfg)} :
           disk' = [disk EXCEPT !.root = IF fixed.changed \/ m.changed THEN m.cfg ELSE @,
                                !.exists = disk.exists \/ fixed.changed \/ m.changed,
                                !.loads = @ + 1,
                                !.changed = m.changed,
                                !.saved = fixed.changed \/ m.changed]
    /\ UNCHANGED <<notes, cfg, _RUNNING, _PENDING_CARD_ADDED_RUN, timers, _SESSION_PROCESSED,
                   runs, last, settled>>

MigrateNext ==
    \/ load_effective
    \/ get_config

MigrateSpec == MigrateInit /\ [][MigrateNext]_vars

(***************************************************************************)
(* Properties.                                                             *)
(***************************************************************************)

\* A call of run_conversion from one of its triggers.
Trigger == MenuRun \/ on_sync_start \/ TimerRun

\* C1: a run that follows a completed run, with the same configuration and
\* no note added from outside in between, creates no target note.
C1_RerunCreatesNothing ==
    (last.kind = "done" /\ last.quiet) => last.created = 0

\* C2: at most one conversion is in progress; a call made while a conversion
\* is in progress returns at once, reads and changes no note, starts no run
\* and leaves no deferred run behind.
C2_AtMostOneRun ==
    [][/\ Len(runs') <= 1
       /\ (runs # <<>> /\ Trigger) =>
              /\ last'.kind = "rejected"
              /\ UNCHANGED <<notes, runs, _RUNNING, _SESSION_PROCESSED, settled>>
              /\ _PENDING_CARD_ADDED_RUN' => _PENDING_CARD_ADDED_RUN]_vars

\* A call was turned away while a run had notes left to convert.
C2_Witness ==
    /\ last.kind = "rejected"
    /\ Len(runs) = 1
    /\ Top.queue # <<>>

\* C3: whenever no call of run_conversion is in progress, whichever way the
\* last one ended, _RUNNING is false.
C3_FlagCleared ==
    runs = <<>> => _RUNNING = FALSE

\* A run ended by an exception inside convert_notes, the flag cleared.
C3_Witness ==
    /\ last.kind = "failed"
    /\ runs = <<>>
    /\ _RUNNING = FALSE

\* C4: no call of run_conversion that passed the re-entrancy check ends by
\* an exception reaching the callback that made it.
C4_NothingPropagates ==
    last.kind # "raised"

\* C5 as stated: a call with manual = false shows no tooltip, whatever its
\* outcome.
C5_AutomaticRunSilent ==
    ~last.manual => last.tip = "none"

\* C5: a call with manual = false shows no tooltip unless convert_notes
\* raised; the failure tooltip is shown whether the call was manual or not.
C5_AutomaticRunSilentUnlessFailed ==
    /\ (~last.manual /\ last.kind # "failed") => last.tip = "none"
    /\ last.kind = "failed" => last.tip = "failed"

\* An automatic run created a note and showed nothing.
C5_Witness ==
    /\ last.kind = "done"
    /\ ~last.manual
    /\ last.created > 0
    /\ last.tip = "none"

\* The configuration names no source note type or no category.
IncompleteConfig ==
    \/ cfg.source_note_type_id = 0 /\ cfg.source_note_type_ids = <<>>
    \/ cfg.categories = <<>>

\* C6 as stated: with no source note type or no category, convert_notes
\* returns 0/0, touches no note, and shows a tooltip exactly when manual.
C6_IncompleteConfigReported ==
    [][(cfg.enabled /\ IncompleteConfig /\ runs = <<>> /\ Trigger /\ last'.kind # "raised") =>
          /\ UNCHANGED <<notes, runs>>
          /\ last'.created = 0
          /\ last'.skipped = 0
          /\ (last'.tip # "none") <=> last'.manual]_vars

\* C6: with no source note type or no category, convert_notes returns 0/0
\* and touches no note; when the collection is loaded it shows a tooltip
\* exactly when manual.
C6_IncompleteConfigReportedWhenLoaded ==
    [][(cfg.enabled /\ IncompleteConfig /\ runs = <<>> /\ Trigger /\ last'.kind # "raised") =>
          /\ UNCHANGED <<notes, runs>>
          /\ last'.kind \in {"notready", "nosrc", "nocat"}
          /\ last'.created = 0
          /\ last'.skipped = 0
          /\ last'.kind # "notready" => ((last'.tip # "none") <=> last'.manual)]_vars

\* A manual run without source note type showed its tooltip, notes present.
C6_Witness ==
    /\ last.kind = "nosrc"
    /\ last.manual
    /\ last.tip = "nosrc"
    /\ notes # <<>>

\* C7: the selector returns the first category, in configured order, whose
\* filter matches the note, and none when none matches; with <<A, B>> a
\* "godan, transitive" note gets A and a "noun" note gets B.
C7_FirstMatchWins ==
    \A i \in 1..Len(notes) :
        LET sv == _build_source_values(notes[i], cfg)
            k == _select_category(notes[i], sv, cfg.categories)
            pos == _get_field(notes[i], "PartOfSpeech")
        IN  /\ k \in 0..Len(cfg.categories)
            /\ k # 0 => _matches_filter(notes[i], sv, cfg.categories[k].filter)
            /\ \A j \in 1..Len(cfg.categories) :
                   (k = 0 \/ j < k) => ~_matches_filter(notes[i], sv, cfg.categories[j].filter)
            /\ (cfg.categories = <<CatA, CatB>> /\ pos = "godan, transitive") => k = 1
            /\ (cfg.categories = <<CatA, CatB>> /\ pos = "noun") => k = 2

\* Under <<A, B>> a note was made for A from a godan note and one for B
\* from a noun note.
C7_Witness ==
    /\ cfg.categories = <<CatA, CatB>>
    /\ \E i, j \in 1..Len(notes) :
           /\ notes[i].origin # 0 /\ notes[i].cat = 1
           /\ _get_field(notes[notes[i].origin], "PartOfSpeech") = "godan, transitive"
           /\ notes[j].origin # 0 /\ notes[j].cat = 2
           /\ _get_field(notes[notes[j].origin], "PartOfSpeech") = "noun"

\* The notes a run leaves without target: unprocessed notes of an existing
\* source note type with no category or no target note type.
SkippedOfType(mid) ==
    {i \in 1..Len(notes) : /\ notes[i].mid = mid
                           /\ ~InSeq(cfg.tags.processed_tag, notes[i].tags)
                           /\ TargetOf(i) = 0}

SkippedNotes ==
    UNION {SkippedOfType(_get_target_model(SourceIds(cfg)[k])) : k \in 1..Len(SourceIds(cfg))}

RECURSIVE SkippedPerQuery(_)
SkippedPerQuery(sids) ==
    IF sids = <<>> THEN 0
    ELSE Cardinality(SkippedOfType(_get_target_model(Head(sids)))) + SkippedPerQuery(Tail(sids))

\* A skip: no note created or changed, no error, the run goes on to the next
\* note with one more note counted as skipped.
SkipStep ==
    /\ UNCHANGED <<notes, last, _RUNNING>>
    /\ Len(runs') = Len(runs)
    /\ runs'[Len(runs')].queue = Tail(Top.queue)
    /\ runs'[Len(runs')].created = Top.created
    /\ runs'[Len(runs')].skipped = Top.skipped + 1

C9_CountersAccount ==
    last.kind = "done" =>
        /\ last.created = last.submitted
        /\ last.created + last.skipped = last.returned

\* A run whose first source note type is missing completed and converted.
C9_Witness ==
    /\ last.kind = "done"
    /\ _get_target_model(Head(SourceIds(cfg))) = 0
    /\ last.created > 0
    /\ last.returned > last.created

\* C10: no step changes the configuration, the type of a note, a field of a
\* note other than LinkedNotes, or removes a tag of a note.
C10_SourceNotesReadOnly ==
    [][/\ cfg' = cfg
       /\ Len(notes') >= Len(notes)
       /\ \A i \in 1..Len(notes) :
              /\ notes'[i].mid = notes[i].mid
              /\ DOMAIN notes'[i].flds = DOMAIN notes[i].flds
              /\ \A f \in DOMAIN notes[i].flds :
                     f # "LinkedNotes" => notes'[i].flds[f] = notes[i].flds[f]
              /\ \A t \in 1..Len(notes[i].tags) : InSeq(notes[i].tags[t], notes'[i].tags)]_vars

\* A tagged source note was converted: it kept its tag, got the processed
\* tag and a link after the text its LinkedNotes field held.
C10_Witness ==
    \E i \in 1..Len(notes) :
        /\ notes[i].origin = 0
        /\ InSeq("u", notes[i].tags)
        /\ InSeq(cfg.tags.processed_tag, notes[i].tags)
        /\ StartsWith(notes[i].flds["LinkedNotes"], "x<br>[")

\* The number of times x occurs in the sequence xs.
Occurrences(x, xs) == Cardinality({k \in 1..Len(xs) : xs[k] = x})

\* The target notes: the notes a conversion made.
Targets == {t \in 1..Len(notes) : notes[t].origin # 0}

\* The source notes of the import type of the term configurations.
Sources == {i \in 1..Len(notes) : notes[i].origin = 0}

\* C11: after a source note was converted to target T, its tags hold the
\* processed tag and, when it has vocab, the link tag, each once; its
\* LinkedNotes field, when it has one, contains [Created Card|nid<T>]; and
\* marking it again with the same T changes nothing.
C11_SourceMarkedOnce ==
    \A t \in Targets :
        \E i \in {notes[t].origin} :
            \E source_values \in {_build_source_values(notes[i], cfg)} :
                \E link_tag \in {LinkTag(notes[i], i, cfg, source_values)} :
                    /\ Occurrences(cfg.tags.processed_tag, notes[i].tags) = 1
                    /\ link_tag # "" => Occurrences(link_tag, notes[i].tags) = 1
                    /\ "LinkedNotes" \in DOMAIN notes[i].flds =>
                           Contains(notes[i].flds["LinkedNotes"],
                                    "[Created Card|nid" \o IntToStr(t) \o "]")
                    /\ _mark_source_note(notes[i], i, cfg, source_values, t) = notes[i]

\* A note that carried its link tag before the run was converted: the link
\* tag was not added again, the processed tag and the link were.
C11_Witness ==
    \E t \in Targets :
        /\ notes[notes[t].origin].tags = <<"lk::v::1", "u", "done">>
        /\ notes[notes[t].origin].flds["LinkedNotes"] = "[Created Card|nid2]"

\* A sequence of strings in strictly ascending order.
Ascending(xs) == \A k \in 1..(Len(xs) - 1) : StrLess(xs[k], xs[k + 1])

\* The raw tags of a source note: its Tags value split.
RawTags(i) == _normalize_tags(_get_value(_build_source_values(notes[i], cfg), notes[i], "Tags"))

\* C12: the tag list of the tag transformer and the tag list of the tag
\* collection are in strictly ascending order (sorted, no duplicates),
\* whatever the raw tags are.
C12_TagsSortedUnique ==
    /\ \A i \in Sources :
           /\ Ascending(_transform_tags(RawTags(i), cfg))
           /\ Ascending(_collect_tags(notes[i], i, cfg, _build_source_values(notes[i], cfg)))
    /\ \A t \in Targets : Ascending(notes[t].tags)

\* A note whose raw tags repeat a tag and hold two tags mapped to the same
\* tag was converted.
C12_Witness ==
    \E t \in Targets :
        /\ Occurrences("n", RawTags(notes[t].origin)) = 2
        /\ InSeq("m", RawTags(notes[t].origin))
        /\ _transform_tags(RawTags(notes[t].origin), cfg) = <<"exp", "foobar", "noun">>
        /\ Occurrences("noun", notes[t].tags) = 1

\* The sanitized vocab of source note i: Vocab, else VocabFurigana.
SafeVocab(i) ==
    LET source_values == _build_source_values(notes[i], cfg)
        v == _get_value(source_values, notes[i], "Vocab")
    IN  _safe_tag_component(IF v # "" THEN v
                            ELSE _get_value(source_values, notes[i], "VocabFurigana"))

\* The tags of note n that begin with the link tag prefix.
LinkTagsOf(n) ==
    {notes[n].tags[k] : k \in {k \in 1..Len(notes[n].tags) :
                                  StartsWith(notes[n].tags[k], cfg.tags.link_tag_prefix \o "::")}}

\* C13: every target note carries the export tag; it and its marked source
\* note carry the link tag <prefix>::<sanitized vocab>::<source id> when the
\* sanitized vocab (Vocab, else VocabFurigana) is not empty, and no link tag
\* when it is empty.
C13_ExportAndLinkTag ==
    \A t \in Targets :
        \E i \in {notes[t].origin} :
            \E vocab_safe \in {SafeVocab(i)} :
                /\ InSeq(cfg.tags.export_tag, notes[t].tags)
                /\ LinkTagsOf(t) = LinkTagsOf(i)
                /\ LinkTagsOf(t) =
                       IF vocab_safe # ""
                       THEN {cfg.tags.link_tag_prefix \o "::" \o vocab_safe \o "::" \o IntToStr(i)}
                       ELSE {}

\* A note with an empty Vocab and a VocabFurigana of "c [d]" was converted.
C13_Witness ==
    \E t \in Targets :
        /\ notes[notes[t].origin].flds["Vocab"] = ""
        /\ InSeq("lk::c_d::1", notes[t].tags)
        /\ InSeq("lk::c_d::1", notes[notes[t].origin].tags)
        /\ InSeq("exp", notes[t].tags)

\* A note whose Vocab is nothing but brackets was converted without link tag.
C13_EmptyVocabConverted ==
    \E t \in Targets : notes[notes[t].origin].flds["Vocab"] = "[]" /\ LinkTagsOf(t) = {}

\* The tags of note n that begin with prefix.
TagsWith(n, prefix) ==
    {notes[n].tags[k] : k \in {k \in 1..Len(notes[n].tags) : StartsWith(notes[n].tags[k], prefix)}}

HasDigit(s) == \E k \in 1..Len(s) : IsDigit(At(s, k))

\* The first maximal run of digits of a text that has a digit.
FirstRun(s) ==
    LET a == CHOOSE k \in 1..Len(s) : IsDigit(At(s, k)) /\ \A j \in 1..(k - 1) : ~IsDigit(At(s, j))
        b == CHOOSE k \in a..Len(s) : (\A j \in a..k : IsDigit(At(s, j))) /\ ~IsDigit(At(s, k + 1))
    IN  SubSeq(s, a, b)

\* The frequency tags a frequency text stands for.
FreqTagsFor(s) == IF HasDigit(s) THEN {"Freq::" \o FirstRun(s)} ELSE {}

\* C14 as stated: the frequency tags of a target are exactly Freq::<first
\* maximal run of digits of the FreqJPDB field> when the field has a digit,
\* and none when the field is empty or has no digit.
C14_FreqTagFromField ==
    \A t \in Targets :
        TagsWith(t, "Freq::") = FreqTagsFor(_get_field(notes[notes[t].origin], "FreqJPDB"))

\* C14: the frequency tags of a target are exactly Freq::<first maximal run
\* of digits> of the FreqJPDB field or, when that field is empty or absent,
\* of the FeqJPDB field; none when the text read has no digit.
C14_FreqTagFromFieldOrFeq ==
    \A t \in Targets :
        \E i \in {notes[t].origin} :
            TagsWith(t, "Freq::") =
                FreqTagsFor(IF _get_field(notes[i], "FreqJPDB") # ""
                            THEN _get_field(notes[i], "FreqJPDB")
                            ELSE _get_field(notes[i], "FeqJPDB"))

\* A note whose FreqJPDB is empty and whose FeqJPDB is "77" was converted.
C14_Witness ==
    \E t \in Targets :
        /\ notes[notes[t].origin].flds["FreqJPDB"] = ""
        /\ notes[notes[t].origin].flds["FeqJPDB"] = "77"
        /\ InSeq("Freq::77", notes[t].tags)

\* A note whose FreqJPDB holds two runs of digits was converted: the tag
\* names the first.
C14_FirstRunTagged ==
    \E t \in Targets :
        /\ notes[notes[t].origin].flds["FreqJPDB"] = "a12b34"
        /\ TagsWith(t, "Freq::") = {"Freq::12"}

Levels == {"1", "2", "3", "4", "5"}

\* C15: a target carries at most one JLPT tag; it is JLPT::N<d> with d in
\* 1..5 a digit of the FreqJLPT field; there is none when the field is empty
\* or holds no digit 1..5, and it is JLPT::N<d> when the field reads as
\* level d.
C15_AtMostOneJlptTag ==
    \A t \in Targets :
        \E f \in {_get_field(notes[notes[t].origin], "FreqJLPT")} :
            /\ Cardinality(TagsWith(t, "JLPT")) <= 1
            /\ \A tag \in TagsWith(t, "JLPT") :
                   \E d \in Levels : tag = "JLPT::N" \o d /\ Contains(f, d)
            /\ (f = "" \/ \A d \in Levels : ~Contains(f, d)) => TagsWith(t, "JLPT") = {}
            /\ \A d \in Levels :
                   Lower(Strip(f)) \in {"jlpt n" \o d, "jlpt-n" \o d, "jlpt " \o d,
                                         "n" \o d, "n " \o d}
                       => TagsWith(t, "JLPT") = {"JLPT::N" \o d}

\* A note whose FreqJLPT is "JLPT N3" was converted.
C15_Witness ==
    \E t \in Targets :
        /\ notes[notes[t].origin].flds["FreqJLPT"] = "JLPT N3"
        /\ TagsWith(t, "JLPT") = {"JLPT::N3"}

\* A note whose FreqJLPT is "N6" was converted without JLPT tag.
C15_NoLevelConverted ==
    \E t \in Targets :
        /\ notes[notes[t].origin].flds["FreqJLPT"] = "N6"
        /\ TagsWith(t, "JLPT") = {}

\* The source values of the source note of target t.
ValuesOfSource(t) == _build_source_values(notes[notes[t].origin], cfg)

\* The configured virtual fields with the given id.
FieldsWithId(id) ==
    {cfg.virtual_fields[k] : k \in {k \in 1..Len(cfg.virtual_fields) : cfg.virtual_fields[k].id = id}}

C16_PrimaryTaken ==
    \E t \in Targets :
        /\ notes[notes[t].origin].flds["GlossaryFirst"] # ""
        /\ notes[t].flds["Meaning"] = "sel"

\* C17: a target field mapped to a virtual field of type note_link holds
\* [<label>|nid<source note id>], the brackets of the label escaped and the
\* label Source when none is configured.
C17_NoteLink ==
    \A t \in Targets :
        /\ \A vf \in FieldsWithId("link") :
               vf.type = "note_link" /\ vf.label = "A[1]"
        /\ \A vf \in FieldsWithId("plain") :
               vf.type = "note_link" /\ vf.label = ""
        /\ notes[t].flds["Link"] = "[A\\[1\\]|nid" \o IntToStr(notes[t].origin) \o "]"
        /\ notes[t].flds["Plain"] = "[Source|nid" \o IntToStr(notes[t].origin) \o "]"

\* The second note of a collection was converted.
C17_Witness ==
    \E t \in Targets :
        /\ notes[t].origin = 2
        /\ notes[t].flds["Link"] = "[A\\[1\\]|nid2]"
        /\ notes[t].flds["Plain"] = "[Source|nid2]"

KnownTypes == {"copy", "fallback", "to_hepburn", "to_tag", "note_link"}

\* The ids _compute_value answers without a virtual field.
LegacyIds == {"Vocab", "VocabMeaning", "VocabHepburn", "FamilyID", "SourceNoteLink"}

\* The key target field n of target t was computed from.
KeyOf(t, n) ==
    LET field_map == _ensure_defaults(cfg.categories[notes[t].cat].field_map,
                                      NoteTypes[notes[t].mid])
    IN  IF n \in DOMAIN field_map THEN field_map[n] ELSE "ignore"

\* The id a computed key names, "" for another key.
ComputedId(key) == IF StartsWith(key, "computed:") THEN AfterColon(key, "computed:") ELSE ""

NonDegenerate(f) ==
    /\ f # EmptyFilter
    /\ Strip(f.source_field) # ""
    /\ _parse_filter_values(f.values) # <<>>

\* The text hay matches the values of rule f in the mode of f.
MatchesText(hay, f) ==
    LET values == _parse_filter_values(f.values)
    IN  IF Lower(f.mode) = "equals"
        THEN \E k \in 1..Len(values) : Lower(hay) = values[k]
        ELSE \E k \in 1..Len(values) : Lower(hay) # "" /\ Contains(Lower(hay), values[k])

\* The rules of the configuration.
Rules == {cfg.categories[k].filter : k \in 1..Len(cfg.categories)}

\* C19 as stated: a rule matches a note iff it is empty, has no field, has
\* no values, or the lowercased value of the note's field equals (mode
\* equals) or contains (otherwise) a configured value; a rule with field and
\* values never matches a note whose field is empty or absent.
C19_MatchesFieldOfNote ==
    \A i \in Sources :
        \A f \in Rules :
            \E m \in {_matches_filter(notes[i], _build_source_values(notes[i], cfg), f)} :
                /\ m <=> (~NonDegenerate(f)
                          \/ MatchesText(_get_field(notes[i], Strip(f.source_field)), f))
                /\ (NonDegenerate(f) /\ _get_field(notes[i], Strip(f.source_field)) = "") => ~m

\* C19: a rule matches a note iff it is empty, has no field, has no values,
\* or the lowercased source value at its field (the value built for the note,
\* else the field of the note) equals (mode equals) or contains (otherwise) a
\* configured value; a rule with field and values never matches a note whose
\* source value at the field is empty.
C19_MatchesSourceValue ==
    \A i \in Sources :
        \A f \in Rules :
            \E source_values \in {_build_source_values(notes[i], cfg)} :
                \E hay \in {_get_value(source_values, notes[i], Strip(f.source_field))} :
                    \E m \in {_matches_filter(notes[i], source_values, f)} :
                        /\ m <=> (~NonDegenerate(f) \/ MatchesText(hay, f))
                        /\ (NonDegenerate(f) /\ hay = "") => ~m

\* A note whose PartOfSpeech field is empty was converted by the category
\* whose rule reads PartOfSpeech: the value came from the POS field.
C19_Witness ==
    \E t \in Targets :
        /\ notes[notes[t].origin].flds["PartOfSpeech"] = ""
        /\ cfg.categories[notes[t].cat].id = "K8"
        /\ NonDegenerate(cfg.categories[notes[t].cat].filter)

\* A note whose GlossaryFirst is "Hello" was converted by the category whose
\* rule is: GlossaryFirst equals "hello".
C19_CaseIgnored ==
    \E t \in Targets :
        /\ notes[notes[t].origin].flds["GlossaryFirst"] = "Hello"
        /\ cfg.categories[notes[t].cat].id = "K6"

\* The drop strings of the configuration.
Drop == cfg.tag_transform.drop

\* The raw tag tokens of the source notes.
Tokens == UNION {SeqSet(RawTags(i)) : i \in Sources}

\* A token whose cleaned form is empty or a drop string yields no tag.
DiscardRule ==
    \A token \in Tokens :
        \E cleaned \in {_strip_noise_symbols(token, Drop)} :
            (cleaned = "" \/ InSeq(cleaned, Drop)) => TagsOf(token, cfg.tag_transform) = {}

\* C20 as stated: the cleaned form of a raw tag token contains no drop
\* string; a token whose cleaned form is empty or a drop string yields no
\* tag.
C20_NoDropStringLeft ==
    /\ \A token \in Tokens :
           \A k \in 1..Len(Drop) : ~Contains(_strip_noise_symbols(token, Drop), Drop[k])
    /\ DiscardRule

\* C20: the cleaned form of a raw tag token is the token after one
\* str.replace per drop string, in the configured order, and a strip: it
\* contains no drop string of one character, and fooXbar becomes foobar when
\* X is dropped; a token whose cleaned form is empty or a drop string yields
\* no tag.
C20_DropStringsRemovedOnce ==
    /\ \A token \in Tokens :
           \E cleaned \in {_strip_noise_symbols(token, Drop)} :
               /\ cleaned = Strip(RemoveEach(token, Drop))
               /\ \A k \in 1..Len(Drop) : Len(Drop[k]) = 1 => ~Contains(cleaned, Drop[k])
               /\ (token = "fooXbar" /\ Drop = <<"X">>) => cleaned = "foobar"
    /\ DiscardRule

\* A note with the raw tags aaabbb, aXb and b was converted while ab and X
\* are dropped: aaabbb gave a tag that contains ab, aXb gave none.
C20_Witness ==
    \E t \in Targets :
        /\ Drop = <<"ab", "X">>
        /\ RawTags(notes[t].origin) = <<"aaabbb", "aXb", "b">>
        /\ InSeq("p_aabb", notes[t].tags)
        /\ InSeq("p_b", notes[t].tags)
        /\ ~InSeq("p_ab", notes[t].tags)

\* The mapping table and the sanitized prefix of the configuration.
Mapping == cfg.tag_transform.mapping

Prefix == _safe_tag_component(cfg.tag_transform.prefix)

\* The raw tag tokens whose cleaned form is kept: not empty, no drop string.
Kept == {token \in Tokens :
            \E cleaned \in {_strip_noise_symbols(token, Drop)} :
                cleaned # "" /\ ~InSeq(cleaned, Drop)}

\* The kept tokens whose cleaned form is a key of the mapping table.
MappedTokens == {token \in Kept : _strip_noise_symbols(token, Drop) \in DOMAIN Mapping}

\* The non-empty tags the mapping table gives for a key.
MappedTags(key) == {Mapping[key][k] : k \in {k \in 1..Len(Mapping[key]) : Mapping[key][k] # ""}}

\* C21: a raw tag token whose cleaned form is a key of the mapping table
\* yields exactly the non-empty tags the table gives for the key, as written
\* and without the prefix, and not the token itself; a key that has only
\* empty tags yields none.  The tags reach the target note.
C21_MappedValuesEmitted ==
    /\ \A token \in MappedTokens :
           \E key \in {_strip_noise_symbols(token, Drop)} :
               \E out \in {SeqSet(_transform_tags(<<token>>, cfg))} :
                   /\ out = MappedTags(key)
                   /\ (Prefix \o _safe_tag_component(key)) \in out
                          => (Prefix \o _safe_tag_component(key)) \in MappedTags(key)
                   /\ (\A k \in 1..Len(Mapping[key]) : Mapping[key][k] = "") => out = {}
    /\ \A t \in Targets :
           \A token \in SeqSet(RawTags(notes[t].origin)) \cap MappedTokens :
               \A m \in MappedTags(_strip_noise_symbols(token, Drop)) : InSeq(m, notes[t].tags)

\* A note with the raw tags z and n was converted while the prefix is "p ",
\* n maps to an empty tag and "N [x]", and z to an empty tag only: the target
\* has the tag N [x] as written, and none for z.
C21_Witness ==
    \E t \in Targets :
        /\ Prefix = "p_"
        /\ {"z", "n"} \subseteq SeqSet(RawTags(notes[t].origin)) \cap MappedTokens
        /\ InSeq("N [x]", notes[t].tags)
        /\ ~InSeq("p_N [x]", notes[t].tags)
        /\ ~InSeq("p_n", notes[t].tags)
        /\ ~InSeq("n", notes[t].tags)
        /\ ~InSeq("p_z", notes[t].tags)
        /\ ~InSeq("", notes[t].tags)

\* The kept tokens whose cleaned form is no key of the mapping table.
UnmappedTokens == Kept \ MappedTokens

\* The text has no whitespace and none of [ ] < >.
Clean(text) == \A k \in 1..Len(text) : ~IsSpace(At(text, k)) /\ At(text, k) \notin {"[", "]", "<", ">"}

\* C22: a raw tag token whose cleaned form is no key of the mapping table
\* yields one tag, the sanitized prefix followed by the sanitized cleaned
\* token; the tag has no whitespace and none of [ ] < >, starts with the
\* sanitized prefix, and is among the tags of the target note.
C22_UnmappedSanitized ==
    /\ \A token \in UnmappedTokens :
           \E cleaned \in {_strip_noise_symbols(token, Drop)} :
               \E out \in {_transform_tags(<<token>>, cfg)} :
                   /\ Len(out) = 1
                   /\ out[1] = Prefix \o RemoveChars(cleaned, {"[", "]", "<", ">"})
                   /\ Clean(out[1])
                   /\ Clean(Prefix)
                   /\ StartsWith(out[1], Prefix)
    /\ \A t \in Targets :
           \A token \in SeqSet(RawTags(notes[t].origin)) \cap UnmappedTokens :
               InSeq(_transform_tags(<<token>>, cfg)[1], notes[t].tags)

\* A note with the raw tag <c> was converted while the prefix is "p ": the
\* target has the tag p_c.
C22_Witness ==
    \E t \in Targets :
        /\ cfg.tag_transform.prefix = "p "
        /\ "<c>" \in SeqSet(RawTags(notes[t].origin)) \cap UnmappedTokens
        /\ InSeq("p_c", notes[t].tags)
        /\ ~InSeq("p <c>", notes[t].tags)
        /\ ~InSeq("p_<c>", notes[t].tags)

\* The configured virtual fields of type to_tag.
ToTagFields ==
    {cfg.virtual_fields[k] :
        k \in {k \in 1..Len(cfg.virtual_fields) : cfg.virtual_fields[k].type = "to_tag"}}

\* The value the resolver gives for a virtual field and the source of a target.
VirtualValue(vf, t) ==
    _compute_virtual_value(vf, notes[notes[t].origin], notes[t].origin, cfg, ValuesOfSource(t))

\* The resolver gives for a to_tag virtual field what it gives for a copy of
\* the same source field: the value of the field, unsplit.
ToTagLikeCopy ==
    \A t \in Targets :
        \A vf \in ToTagFields :
            /\ VirtualValue(vf, t) = VirtualValue([vf EXCEPT !.type = "copy"], t)
            /\ VirtualValue(vf, t) = _get_field(notes[notes[t].origin], vf.source)

\* C23 as stated: the resolver gives the value of a to_tag virtual field
\* unsplit, and the tags the tag transformer makes of the tokens of that
\* value (drop, mapping, prefix) are tags of the target note.
C23_ToTagTransformed ==
    /\ ToTagLikeCopy
    /\ \A t \in Targets :
           \A vf \in ToTagFields :
               SeqSet(_transform_tags(_normalize_tags(VirtualValue(vf, t)), cfg))
                   \subseteq SeqSet(notes[t].tags)

\* C23: the resolver gives the value of a to_tag virtual field unsplit, and
\* the tokens of that value (split at whitespace, commas and semicolons) are
\* tags of the target note as they are, with no drop, mapping, prefix or
\* sanitizing.
C23_ToTagVerbatim ==
    /\ ToTagLikeCopy
    /\ \A t \in Targets :
           \A vf \in ToTagFields :
               SeqSet(_normalize_tags(VirtualValue(vf, t))) \subseteq SeqSet(notes[t].tags)

\* A note whose to_tag field holds "n X[y]" was converted while the prefix is
\* "p ", n is a mapping key and X a drop string: the target has the tags n
\* and X[y], and not p_y.
C23_Witness ==
    \E t \in Targets :
        \E vf \in ToTagFields :
            /\ VirtualValue(vf, t) = "n X[y]"
            /\ Prefix = "p_"
            /\ "n" \in DOMAIN Mapping
            /\ InSeq("X", Drop)
            /\ InSeq("n", notes[t].tags)
            /\ InSeq("X[y]", notes[t].tags)
            /\ ~InSeq("p_y", notes[t].tags)

\* The field names of the note type of a note.
FieldsOf(t) == SeqSet(NoteTypes[notes[t].mid].flds)

\* The field map of the category a target was made for.
MapOf(t) == cfg.categories[notes[t].cat].field_map

\* The value the resolver gives for a key and the source of a target.
ValueFor(key, t) ==
    _compute_value(key, notes[notes[t].origin], notes[t].origin, cfg, ValuesOfSource(t))

\* C24: a field of the target note type holds the value of the key the
\* field map of the category gives for it, and nothing when that key is
\* ignore; without such a key it holds the value of the built-in key for it,
\* and nothing when there is none.  The target has the fields of its note
\* type and no other.
C24_FieldMapOverDefaults ==
    \A t \in Targets :
        /\ DOMAIN notes[t].flds = FieldsOf(t)
        /\ \A F \in FieldsOf(t) :
               IF F \in DOMAIN MapOf(t)
               THEN notes[t].flds[F] = (IF MapOf(t)[F] = "ignore" THEN "" ELSE ValueFor(MapOf(t)[F], t))
               ELSE IF F \in DOMAIN DEFAULT_FIELD_MAPPING
                    THEN notes[t].flds[F] = ValueFor(DEFAULT_FIELD_MAPPING[F], t)
                    ELSE notes[t].flds[F] = ""

\* A note with the vocab w and a selection text was converted for a category
\* whose field map ignores Vocab, gives the vocab for FamilyID, names the
\* field Ghost, and has no key for VocabMeaning and Note: Vocab is empty,
\* FamilyID is w, VocabMeaning holds the built-in meaning, Note is empty and
\* there is no field Ghost.
C24_Witness ==
    \E t \in Targets :
        /\ {"Vocab", "Ghost"} \subseteq DOMAIN MapOf(t)
        /\ MapOf(t)["Vocab"] = "ignore"
        /\ {"VocabMeaning", "Note"} \cap DOMAIN MapOf(t) = {}
        /\ notes[notes[t].origin].flds["Vocab"] = "w"
        /\ notes[notes[t].origin].flds["SelectionText"] # ""
        /\ notes[t].flds["Vocab"] = ""
        /\ notes[t].flds["FamilyID"] = "w"
        /\ notes[t].flds["VocabMeaning"] = ValuesOfSource(t)["SelectionText"]
        /\ notes[t].flds["VocabMeaning"] # ""
        /\ notes[t].flds["Note"] = ""
        /\ "Ghost" \notin DOMAIN notes[t].flds

\* C29: every tag the tag transformer makes of an unmapped token of a
\* converted note is the sanitized prefix followed by a non-empty sanitized
\* token, so that no tag of the target is empty or the prefix alone; a token
\* that sanitizing leaves empty yields no tag.
C29_NoEmptyTag ==
    \A t \in Targets :
        \A token \in SeqSet(RawTags(notes[t].origin)) \cap UnmappedTokens :
            \E out \in {SeqSet(_transform_tags(<<token>>, cfg))} :
                /\ \A tag \in out : Len(tag) > Len(Prefix) /\ InSeq(tag, notes[t].tags)
                /\ _safe_tag_component(_strip_noise_symbols(token, Drop)) = "" => out = {}
                /\ ~InSeq(Prefix, notes[t].tags)

\* The collection receives a note, from outside or from a conversion.
NoteAdded == Len(notes') = Len(notes) + 1

\* note_will_be_added reaches _schedule_card_added_run for a note of type mid.
Schedules(mid) ==
    /\ cfg.enabled
    /\ cfg.source_note_type_id = 0 \/ mid = cfg.source_note_type_id
    /\ cfg.run_on_card_added

\* A single-shot timer of a deferred run fires.
TimerFires == timers' = timers - 1

\* What a step does to the pending flag and the timers.
DeferredStep ==
    /\ (NoteAdded /\ _PENDING_CARD_ADDED_RUN) =>
           (_PENDING_CARD_ADDED_RUN' /\ timers' = timers)
    /\ (NoteAdded /\ ~_PENDING_CARD_ADDED_RUN /\ Schedules(notes'[Len(notes')].mid)) =>
           (_PENDING_CARD_ADDED_RUN' /\ timers' = 1)
    /\ TimerFires =>
           (/\ ~_PENDING_CARD_ADDED_RUN'
            /\ timers' = 0
            /\ ~last'.manual
            /\ last'.kind \in {"rejected", "raised", "disabled", "notready", "nosrc", "nocat",
                               "running"})
    /\ (~NoteAdded /\ ~TimerFires) => UNCHANGED <<_PENDING_CARD_ADDED_RUN, timers>>

\* C25: at most one timer of a deferred run waits, and one waits exactly
\* while the pending flag is set; a note added while the flag is set starts
\* no timer; a timer that fires clears the flag and makes one call
\* run_conversion(manual = false); a note added while the flag is clear, and
\* for which the hook schedules, sets the flag and starts one timer.
C25_OneDeferredRun ==
    /\ [](timers = (IF _PENDING_CARD_ADDED_RUN THEN 1 ELSE 0))
    /\ [][DeferredStep]_vars

\* Two notes were added from outside before the timer fired; the run the
\* timer started (no run on sync is configured) has converted one of them,
\* and its target has set the flag and started a timer again.
C25_Witness ==
    /\ cfg.run_on_card_added
    /\ ~cfg.run_on_sync
    /\ runs # <<>>
    /\ ~Top.manual
    /\ Top.base = 2
    /\ Len(notes) = 3
    /\ notes[3].origin # 0
    /\ _PENDING_CARD_ADDED_RUN
    /\ timers = 1

\* The notes of the collection that were created from note i.
TargetsOf(i) == {t \in 1..Len(notes) : notes[t].origin = i}

\* C26: whatever runs were made, and however they ended, the collection
\* holds at most one note created from any one source note.
C26_OneTargetPerSource == \A i \in 1..Len(notes) : Cardinality(TargetsOf(i)) <= 1

\* The notes that carry the processed tag.
Processed == {i \in 1..Len(notes) : InSeq(cfg.tags.processed_tag, notes[i].tags)}

\* C27: every note that carries the processed tag has a note in the
\* collection that was created from it, whatever runs were made and however
\* they ended.
C27_ProcessedHasTarget == \A i \in Processed : TargetsOf(i) # {}

\* A run was aborted after it had converted a note: that note carries the
\* processed tag and has its target, and a target whose source was left
\* unmarked is in the collection.
C27_Witness ==
    /\ last.kind = "failed"
    /\ runs = <<>>
    /\ \E i \in Processed : TargetsOf(i) # {}
    /\ \E t \in 1..Len(notes) : notes[t].origin # 0 /\ notes[t].origin \notin Processed

\* No run is in progress and no deferred run is pending.
Quiescent == runs = <<>> /\ ~_RUNNING /\ ~_PENDING_CARD_ADDED_RUN /\ timers = 0

\* A category of the configuration makes notes of a type that a run reads.
SelfFeeding ==
    \E c \in 1..Len(cfg.categories) :
        \E k \in 1..Len(SourceIds(cfg)) : cfg.categories[c].note_type_id = SourceIds(cfg)[k]

C28_QuiescentUnlessSelfFeeding == SelfFeeding \/ []<>Quiescent

\* The migration applied to a document it has migrated.
Again(migrated) == [cfg |-> migrated.cfg, changed |-> FALSE]

====
